---- MODULE Spec2Model ----
(***************************************************************************)
(* The recipe crawlers of the repository as a state machine.               *)
(*                                                                         *)
(* Three variants of one crawl are modelled side by side, chosen in Init:  *)
(*   "final"      10000recipe_final.py      one session, sequential        *)
(*   "optimized"  10000recipe_optimized.py  session queue, worker threads  *)
(*   "robust"     10000recipe_robust.py     session list, sequential,      *)
(*                                          HTTPAdapter with a Retry       *)
(* Thread 0 is the main thread; threads 1..MAX_WORKERS are the workers of  *)
(* the optimized crawler's ThreadPoolExecutor.                             *)
(*                                                                         *)
(* Spec        is a whole run: listing phase, detail phase, save.          *)
(* SpecRequest is the request executor on its own: one caller issues       *)
(*             safe_request calls, and the answers of the transport, the   *)
(*             requests put on the wire and the sleeps are recorded        *)
(*             (probe = TRUE).                                             *)
(* SpecLive    is Spec with the threads scheduled fairly at get_session.   *)
(* SpecFixed   is a whole run against a site that gives each URL the same   *)
(*             answer every time it is asked.                              *)
(* SpecDelay   is the sleeps of the crawlers: each draws its duration with  *)
(*             random.uniform from the configured range.                   *)
(* SpecValidate is validate_data applied, twice in a row, to records and   *)
(*             required fields drawn in its Init.                          *)
(* SpecZero    is a whole run of a crawler configured with MAX_WORKERS = 0  *)
(*             or MAX_SESSIONS = 0.                                        *)
(* SpecPool    is the session pool on its own: a client calls get_session  *)
(*             and return_session in any order, giving back sessions it    *)
(*             was handed.                                                 *)
(* SpecBatch   is the split of a job list into batches in run_optimized,   *)
(*             applied to job lists and batch sizes drawn in its Init.     *)
(* SpecSearchText is search_recipes of api_server.py applied to merged      *)
(*             frames and search words drawn in its Init.                  *)
(* SpecSearchAuthor is search_recipes applied to merged frames, authors    *)
(*             and difficulties drawn in its Init.                         *)
(* SpecSearchTime is search_recipes applied to preparation times and       *)
(*             values of max_time drawn in its Init.                       *)
(* SpecPage    is the paging of GET /search and GET /recipes applied to     *)
(*             frames, pages and page sizes drawn in its Init.             *)
(* SpecGetById is GET /recipes/{recipe_id} applied to CSV files and ids     *)
(*             drawn in its Init.                                          *)
(* SpecStats   is the cooking-time histogram of get_statistics applied to   *)
(*             frames drawn in its Init.                                   *)
(* SpecExtract is extract_ingredients applied to detail pages drawn in its  *)
(*             Init, in the method of the final and optimized crawler and  *)
(*             in the script 10000recipe.py.                               *)
(* SpecClean   is clean_text applied to texts drawn in its Init, and then   *)
(*             to its own result.                                          *)
(* SpecReload  is load_latest_data of api_server.py called between         *)
(*             creations and modifications of the CSV files.               *)
(* SpecLoader  is the merge of the two data frames in api_server.py and    *)
(*             data_analyzer.py, applied to frames drawn in its Init.      *)
(***************************************************************************)
EXTENDS Naturals, Sequences, FiniteSets

(***************************************************************************)
(* Configuration.  The retry bounds and the robust pool size are the       *)
(* values of the source.  MAX_PAGES, BATCH_SIZE and MAX_WORKERS are run    *)
(* with smaller values than the source sets (25 or 10 pages, batches of    *)
(* 10, 4 workers): the code is the same for every value.                   *)
(***************************************************************************)
FINAL_MAX_RETRIES == 3

OPTIMIZED_MAX_RETRIES == 3

ROBUST_MAX_RETRIES == 5

MAX_SESSIONS == 3

\* The delay ranges of the three configurations, in seconds.
FINAL_MIN_DELAY == 3

FINAL_MAX_DELAY == 7

FINAL_RETRY_DELAY_MIN == 5

FINAL_RETRY_DELAY_MAX == 10

OPTIMIZED_MIN_DELAY == 1

OPTIMIZED_MAX_DELAY == 3

OPTIMIZED_RETRY_DELAY_MIN == 2

OPTIMIZED_RETRY_DELAY_MAX == 5

ROBUST_MIN_DELAY == 5

ROBUST_MAX_DELAY == 15

ROBUST_RETRY_DELAY_MIN == 10

ROBUST_RETRY_DELAY_MAX == 30

MAX_PAGES == 3

BATCH_SIZE == 2

\* SpecBatch: the longest job list and the largest batch size drawn.
MaxJobs == 4

MaxBatch == 3

\* The search specifications: the longest title or search word, and the most
\* rows of the merged frame.
MaxWord == 2

MaxHits == 2

\* SpecGetById: the most rows of a CSV file.
MaxFile == 2

\* SpecPage: the most rows of the merged frame, the last page asked for and
\* the largest page size (the endpoints take per_page up to 100).
MaxPaged == 4

MaxPage == 3

MaxPerPage == 3

\* SpecSearchTime: the longest preparation time.
MaxText == 4

\* per_page: int = 20 (search_recipes), Query(20, ge=1, le=100).
DEFAULT_PER_PAGE == 20

\* SpecReload: the most file names of a kind, and the last tick of the clock
\* of the file system.
MaxNames == 2

MaxClock == 3

\* The most characters of a text given to clean_text.
MaxRaw == 4

\* The most groups of a detail page.
MaxGroups == 2

\* SpecPool: the most sessions get_session may create besides the pool's own.
MaxExtra == 2

MAX_WORKERS == 2

\* The most entries the site lists over all its pages.
MaxListed == 2

\* The most safe_request calls the caller of SpecRequest issues.
MaxCalls == 2

\* The most rows of a data frame given to the merge.
MaxRows == 3

Variants == {"final", "optimized", "robust"}

MainThread == 0

Workers == 1..MAX_WORKERS

Threads == {MainThread} \cup Workers

\* The item ids the listing pages may show.
ItemIDs == {"1", "2"}

(***************************************************************************)
(* What the transport answers to one request on the wire:                  *)
(*   "200"   status 200                                                    *)
(*   "204"   a 2xx status other than 200                                   *)
(*   "404"   a 4xx/5xx status outside 429, 500, 502, 503, 504              *)
(*   "503"   a transient failure: status 429/500/502/503/504, a timeout    *)
(*           or a connection failure                                       *)
(*   "error" the call raises an exception that is no RequestException      *)
(***************************************************************************)
Answers == {"200", "204", "404", "503", "error"}

VARIABLES
  variant,       \* which crawler runs
  capacity,      \* the pool size it is configured with (MAX_WORKERS, MAX_SESSIONS)
  probe,         \* TRUE in SpecRequest: the request executor is instrumented
  session_pool,  \* self.session_pool: the idle sessions, oldest first
  created,       \* sessions created so far; they are numbered 1..created
  discarded,     \* sessions return_session dropped (robust, pool full)
  pc,            \* per thread: its place in safe_request and its caller
  session,       \* per thread: the session safe_request holds, 0 for none
  attempt,       \* per thread: the loop variable of safe_request
  outcome,       \* per thread: "none", or how safe_request ended
  answers,       \* probe: per thread, what each session.get of the call gave
  fetches,       \* probe: per thread, requests put on the wire by the call
  sleeps,        \* probe: per thread, backoff sleeps of the call
  waits,         \* probe: per thread, rate-limit sleeps inside the call
  calls,         \* probe: safe_request calls issued by the caller
  run,           \* the main thread's place in run / run_optimized
  jobs,          \* per thread: the pages or ids of the loop or batch it runs
  idx,           \* per thread: position in jobs of the current job
  acc,           \* per thread: all_recipes / recipe_details of its batch
  cur,           \* per thread: the batch it runs or collects, 0 for none
  futures,       \* optimized: per submitted batch, its future
  food_data,     \* self.food_data (robust: all_recipes)
  recipe_data,   \* self.recipe_data (robust: recipe_details)
  processed,     \* instrument: per job of the phase, how often it ended
  succeeded,     \* instrument: per job of the phase, how often it succeeded
  saved,         \* the records written by the save step
  listed,        \* entries the listing pages fetched so far have shown
  data_lock,     \* optimized: the threads inside `with self.data_lock`
  food_df,       \* loader: self.food_df, NoFrame while it is None
  recipe_df,     \* loader: self.recipe_df, NoFrame while it is None
  merged_df,     \* loader: self.merged_df, NoFrame while it is None
  site,          \* the site crawled: what it answers to each URL, if fixed
  delay,         \* SpecDelay: the last rate-limit and backoff sleep drawn
  validation,    \* SpecValidate: a call of validate_data and its result
  batching,      \* SpecBatch: a job list, a batch size and the batches built
  held,          \* SpecPool: the sessions the pool's client holds
  search,        \* the search specifications: a call of search_recipes
  lookup,        \* SpecGetById: the CSV files and a call of get_recipe_by_id
  extraction,    \* SpecExtract: a detail page and a call of extract_ingredients
  cleaning,      \* SpecClean: a text and calls of clean_text
  disk           \* SpecReload: the CSV files, the clock and the loader's last_loaded

poolVars == <<session_pool, created, discarded>>

reqVars == <<pc, session, attempt, outcome, answers, fetches, sleeps, waits>>

runVars == <<run, jobs, idx, acc, cur, futures, food_data, recipe_data,
             processed, succeeded, saved, listed, data_lock>>

loaderVars == <<food_df, recipe_df, merged_df>>

\* The variables of the specifications that apply one function.
unitVars == <<validation, batching, held, search, lookup, extraction, cleaning, disk>>

vars == <<variant, capacity, probe, calls, poolVars, reqVars, runVars, loaderVars, site,
          delay, unitVars>>

----------------------------------------------------------------------------
(* Helpers on sequences. *)

Range(s) == {s[i] : i \in 1..Len(s)}

Last(s) == s[Len(s)]

Front(s) == SubSeq(s, 1, Len(s) - 1)

Min(a, b) == IF a < b THEN a ELSE b

----------------------------------------------------------------------------
(* Configuration of the running variant. *)

MAX_RETRIES ==
  CASE variant = "final" -> FINAL_MAX_RETRIES
    [] variant = "optimized" -> OPTIMIZED_MAX_RETRIES
    [] OTHER -> ROBUST_MAX_RETRIES

\* The sessions the pool is built with: one per worker in the optimized
\* crawler, MAX_SESSIONS in the robust one, no pool in the final one.
Capacity ==
  CASE variant = "optimized" -> MAX_WORKERS
    [] variant = "robust" -> MAX_SESSIONS
    [] OTHER -> 0

\* A faulty construction, for comparison: the pool is left empty.
InitNoSession(v) == <<>>

\* _init_session_pool: the pool after construction.
InitSessionPool(v) ==
  CASE v = "optimized" -> [i \in 1..MAX_WORKERS |-> i]
    [] v = "robust" -> [i \in 1..MAX_SESSIONS |-> i]
    [] OTHER -> <<>>

----------------------------------------------------------------------------
(* The site. *)

\* A site that may answer each request differently.
FreeSite == [fixed |-> FALSE, list |-> <<>>, detail |-> <<>>]

\* The URL thread t asks for belongs to the listing.
AsksListing(t) == run \in {"list", "list_abort"}

\* What a fixed site answers to the URL of the job thread t works on:
\* RECIPE_LIST_URL + page or RECIPE_DETAIL_URL + recipe_id.
SiteEntry(t) ==
  IF AsksListing(t)
    THEN site.list[jobs[t][idx[t]]]
    ELSE site.detail[jobs[t][idx[t]]]

\* Whether the site may give answer ans to the request of thread t.
Serves(t, ans) == site.fixed => ans = SiteEntry(t).ans

\* Whether the site may deliver page doc to thread t.
Delivers(t, doc) == site.fixed => doc = SiteEntry(t).doc

----------------------------------------------------------------------------
(* The transport pool: get_session / return_session. *)

\* A faulty get, for comparison: the session is handed out and stays queued.
QueueGetKept(q) == [item |-> Head(q), rest |-> q]

\* queue.Queue.get on a non-empty queue (optimized): the oldest session
\* leaves the queue.
QueueGet(q) == [item |-> Head(q), rest |-> Tail(q)]

\* list.pop (robust): the newest session leaves the list.
ListPop(l) == [item |-> Last(l), rest |-> Front(l)]

\* A faulty return, for comparison: the pool takes every session.
ReturnSessionAlways(v, pool, s) == Append(pool, s)

\* return_session: the pool after session s is given back.  The optimized
\* queue always takes it; the robust list takes it only below MAX_SESSIONS.
ReturnSession(v, pool, s) ==
  CASE v = "optimized" -> Append(pool, s)
    [] v = "robust" -> IF Len(pool) < capacity THEN Append(pool, s) ELSE pool
    [] OTHER -> pool

\* Whether the exit path of safe_request calls return_session: the finally
\* clause of the optimized crawler, always; the last statements of the robust
\* one, which "return response" on a 200 does not reach.
ReturnsSession(v, out) ==
  CASE v = "optimized" -> TRUE
    [] v = "robust" -> out # "response"
    [] OTHER -> FALSE

\* Sessions that were handed out and are neither back in the pool nor dropped.
CheckedOut == (1..created) \ (Range(session_pool) \cup discarded)

\* The caller enters safe_request.
BeginRequest(t) ==
  /\ pc' = [pc EXCEPT ![t] = IF variant = "final" THEN "send" ELSE "get_session"]
  /\ attempt' = [attempt EXCEPT ![t] = 0]
  /\ outcome' = [outcome EXCEPT ![t] = "none"]
  /\ answers' = [answers EXCEPT ![t] = <<>>]
  /\ fetches' = [fetches EXCEPT ![t] = 0]
  /\ sleeps' = [sleeps EXCEPT ![t] = 0]
  /\ waits' = [waits EXCEPT ![t] = 0]
  /\ UNCHANGED session

\* session = self.get_session().  The optimized queue blocks while it is
\* empty; the robust list hands out a new session when it is empty.
GetSession(t) ==
  /\ pc[t] = "get_session"
  /\ IF variant = "optimized"
       THEN /\ session_pool # <<>>
            /\ session' = [session EXCEPT ![t] = QueueGet(session_pool).item]
            /\ session_pool' = QueueGet(session_pool).rest
            /\ UNCHANGED created
       ELSE IF session_pool # <<>>
         THEN /\ session' = [session EXCEPT ![t] = ListPop(session_pool).item]
              /\ session_pool' = ListPop(session_pool).rest
              /\ UNCHANGED created
         ELSE /\ session' = [session EXCEPT ![t] = created + 1]
              /\ created' = created + 1
              /\ UNCHANGED session_pool
  /\ pc' = [pc EXCEPT ![t] = "send"]
  /\ UNCHANGED <<loaderVars, unitVars, site, delay, variant, capacity, probe, calls, discarded, attempt, outcome, answers,
                 fetches, sleeps, waits, runVars>>

----------------------------------------------------------------------------
(* The request executor: the loop of safe_request. *)

\* Retry(total=MAX_RETRIES, status_forcelist=[429, 500, 502, 503, 504]) on
\* the robust session's HTTPAdapter: retries a session.get may spend.
RetryTotal(v) == IF v = "robust" THEN ROBUST_MAX_RETRIES ELSE 0

\* The courses one session.get can take: `retries` requests were answered by
\* a transient failure and sent again by the adapter, then `ans` ended the
\* call.  A transient failure ends the call only with the retries spent.
SessionGetRuns(v) ==
  {g \in [retries : 0..RetryTotal(v), ans : Answers] :
     g.ans = "503" => g.retries = RetryTotal(v)}

\* Whether the loop treats the answer of session.get as a success.  final,
\* optimized: raise_for_status passes every 2xx.  robust: status_code == 200.
IsSuccess(v, ans) ==
  IF v = "robust" THEN ans = "200" ELSE ans \in {"200", "204"}

\* Whether the answer leaves the loop as an exception: final and optimized
\* catch RequestException only; robust catches Exception.
Propagates(v, ans) == v # "robust" /\ ans = "error"

\* A faulty test, for comparison: the last attempt too is followed by a sleep.
RetriesAfterLast(a, max_retries) == a < max_retries

\* Whether a failed attempt numbered a (from 0) is followed by a backoff
\* sleep and another attempt.
RetriesAfter(a, max_retries) == a < max_retries - 1

\* One iteration of "for attempt in range(max_retries)" on answer ans.
LoopStep(v, a, max_retries, ans) ==
  IF IsSuccess(v, ans)
    THEN [pc |-> "leave", attempt |-> a, outcome |-> "response", sleep |-> 0]
  ELSE IF Propagates(v, ans)
    THEN [pc |-> "leave", attempt |-> a, outcome |-> "raised", sleep |-> 0]
  ELSE IF RetriesAfter(a, max_retries)
    THEN [pc |-> "send", attempt |-> a + 1, outcome |-> "none", sleep |-> 1]
  ELSE [pc |-> "leave", attempt |-> a, outcome |-> "None", sleep |-> 0]

\* The rate-limit sleep at the top of the robust loop body.
WaitsBefore(v) == IF v = "robust" THEN 1 ELSE 0

Attempt(t) ==
  /\ pc[t] = "send"
  /\ attempt[t] < MAX_RETRIES
  /\ \E g \in SessionGetRuns(variant) :
       LET step == LoopStep(variant, attempt[t], MAX_RETRIES, g.ans) IN
       /\ Serves(t, g.ans)
       /\ pc' = [pc EXCEPT ![t] = step.pc]
       /\ attempt' = [attempt EXCEPT ![t] = step.attempt]
       /\ outcome' = [outcome EXCEPT ![t] = step.outcome]
       /\ IF probe
            THEN /\ answers' = [answers EXCEPT ![t] = Append(@, g.ans)]
                 /\ fetches' = [fetches EXCEPT ![t] = @ + g.retries + 1]
                 /\ sleeps' = [sleeps EXCEPT ![t] = @ + step.sleep]
                 /\ waits' = [waits EXCEPT ![t] = @ + WaitsBefore(variant)]
            ELSE UNCHANGED <<answers, fetches, sleeps, waits>>
  /\ UNCHANGED <<loaderVars, unitVars, site, delay, variant, capacity, probe, calls, poolVars, session, runVars>>

\* The way out of safe_request: return_session where the code reaches it,
\* then the return (or the exception) to the caller.
Leave(t) ==
  /\ pc[t] = "leave"
  /\ IF ReturnsSession(variant, outcome[t])
       THEN /\ session_pool' = ReturnSession(variant, session_pool, session[t])
            /\ discarded' = IF session_pool' = session_pool
                              THEN discarded \cup {session[t]}
                              ELSE discarded
       ELSE UNCHANGED <<session_pool, discarded>>
  /\ session' = [session EXCEPT ![t] = 0]
  /\ attempt' = [attempt EXCEPT ![t] = 0]
  /\ pc' = [pc EXCEPT ![t] = "returned"]
  /\ UNCHANGED <<loaderVars, unitVars, site, delay, variant, capacity, probe, calls, created, outcome, answers,
                 fetches, sleeps, waits, runVars>>

----------------------------------------------------------------------------
(* SpecRequest: the request executor on its own. *)

EmptyRun ==
  /\ run = "init"
  /\ jobs = [t \in Threads |-> <<>>]
  /\ idx = [t \in Threads |-> 0]
  /\ acc = [t \in Threads |-> <<>>]
  /\ cur = [t \in Threads |-> 0]
  /\ futures = <<>>
  /\ food_data = <<>>
  /\ recipe_data = <<>>
  /\ processed = <<>>
  /\ succeeded = <<>>
  /\ saved = [food |-> <<>>, recipe |-> <<>>, written |-> FALSE]
  /\ listed = 0
  /\ data_lock = {}

\* The attributes __init__ sets besides the pool.
Fresh ==
  /\ discarded = {}
  /\ pc = [t \in Threads |-> "idle"]
  /\ session = [t \in Threads |-> 0]
  /\ attempt = [t \in Threads |-> 0]
  /\ outcome = [t \in Threads |-> "none"]
  /\ answers = [t \in Threads |-> <<>>]
  /\ fetches = [t \in Threads |-> 0]
  /\ sleeps = [t \in Threads |-> 0]
  /\ waits = [t \in Threads |-> 0]
  /\ calls = 0
  /\ EmptyRun

Construct ==
  /\ variant \in Variants
  /\ capacity = Capacity
  /\ session_pool = InitSessionPool(variant)
  /\ created = Len(session_pool)
  /\ Fresh

\* A data frame attribute of the loader: None, or a frame with its rows.
NoFrame == [loaded |-> FALSE, rows |-> <<>>]

Frame(rows) == [loaded |-> TRUE, rows |-> rows]

\* No data loader is constructed in a crawl.
NoLoader ==
  /\ food_df = NoFrame
  /\ recipe_df = NoFrame
  /\ merged_df = NoFrame

\* No function is applied on its own.
NoBatching == [seq |-> <<>>, size |-> 1, batches |-> <<>>, built |-> FALSE]

\* cooking_time_distribution with nothing counted: the counts of the four
\* buckets in the order of the source.
NoDist == <<0, 0, 0, 0>>

\* No endpoint is called.  Texts are sequences of characters; the empty
\* sequence is the empty string of an argument and the missing value (NaN)
\* of a cell; max_time 0 stands for None; endpoint is "search" for GET
\* /search, "recipes" for GET /recipes and "statistics" for GET /statistics.
\* get_recipe_by_id is not called.
NoLookup ==
  [food_file |-> <<>>, recipe_file |-> <<>>, recipe_id |-> "", status |-> "none",
   recipe |-> <<>>]

NoSearch ==
  [merged_df |-> <<>>, query |-> <<>>, author |-> <<>>, difficulty |-> <<>>,
   max_time |-> 0, page |-> 1, per_page |-> 1, endpoint |-> "search",
   done |-> FALSE,
   total_count |-> 0, recipes |-> <<>>, time_dist |-> NoDist]

\* No call of extract_ingredients.
NoExtraction ==
  [doc |-> [groups |-> <<>>, dt |-> <<>>, dd |-> <<>>], source |-> "method",
   done |-> FALSE, raised |-> FALSE, ingredient_text |-> <<>>,
   condiment_text |-> <<>>]

\* No call of clean_text.
NoCleaning ==
  [text |-> [none |-> TRUE, chars |-> <<>>], result |-> <<>>, again |-> <<>>,
   calls |-> 0]

\* No file, and a loader that has not been constructed.
NoFiles ==
  [now |-> 1, food |-> <<>>, recipe |-> <<>>, last_loaded |-> 0, status |-> "none"]

\* No call of validate_data.
NoValidation ==
  [data_dict |-> <<>>, required_fields |-> {}, result |-> "none", again |-> "none"]

NoUnit ==
  /\ validation = NoValidation
  /\ batching = NoBatching
  /\ held = {}
  /\ search = NoSearch
  /\ lookup = NoLookup
  /\ extraction = NoExtraction
  /\ cleaning = NoCleaning
  /\ disk = NoFiles

\* No sleep has been recorded.
NoDelay == [rate_slept |-> FALSE, rate |-> 0, retry_slept |-> FALSE, retry |-> 0]

InitRequest ==
  Construct /\ NoLoader /\ NoUnit /\ site = FreeSite /\ delay = NoDelay /\ probe = TRUE

\* The caller issues one more safe_request.
Call ==
  /\ probe
  /\ pc[MainThread] \in {"idle", "returned"}
  /\ calls < MaxCalls
  /\ calls' = calls + 1
  /\ BeginRequest(MainThread)
  /\ UNCHANGED <<loaderVars, unitVars, site, delay, variant, capacity, probe, poolVars, runVars>>

NextRequest ==
  \/ Call
  \/ GetSession(MainThread)
  \/ Attempt(MainThread)
  \/ Leave(MainThread)

SpecRequest == InitRequest /\ [][NextRequest]_vars

----------------------------------------------------------------------------
(* Documents, extraction, validation. *)

SeqsUpTo(S, n) == UNION {[1..k -> S] : k \in 0..n}

\* One entry of a listing page as the selectors see it: the href of its
\* a.common_sp_link (or no such element) and the text of its title element
\* (or no such element).  Author, View and Image are carried along unread.
RawItems == [link : {"absent"} \cup ItemIDs, title : {"absent", "T"}]

\* A fetched listing page: its entries, or markup the parser rejects
\* (BeautifulSoup raises).
ListDocs ==
  {[rejected |-> TRUE, items |-> <<>>]} \cup
  {[rejected |-> FALSE, items |-> its] : its \in SeqsUpTo(RawItems, MaxListed)}

\* A fetched detail page: extractable, raising inside the try block of
\* extract_recipe_detail, or rejected by the parser before it.
DetailDocs == {"ok", "unextractable", "rejected"}

\* The strings validate_data rejects besides the empty string (three
\* Korean literals in the source: "no information", "no title", "no author").
Sentinels == {"no-information", "no-title", "no-author"}

\* A validator that remembers what it has judged, for comparison: it accepts
\* nothing once it has given a verdict.
validate_dataOnce(data_dict, required_fields) ==
  /\ validation.result = "none"
  /\ \A field \in required_fields :
       /\ field \in DOMAIN data_dict
       /\ data_dict[field] # ""
       /\ data_dict[field] \notin Sentinels

\* validate_data(data_dict, required_fields)
validate_data(data_dict, required_fields) ==
  \A field \in required_fields :
    /\ field \in DOMAIN data_dict
    /\ data_dict[field] # ""
    /\ data_dict[field] \notin Sentinels

\* The record extract_recipe_list builds from one entry (final, optimized):
\* a missing element gives the empty string.
ItemRecord(item) ==
  [ID |-> IF item.link = "absent" THEN "" ELSE item.link,
   Title |-> IF item.title = "absent" THEN "" ELSE item.title]

\* The record the robust extract_recipe_list builds: a missing title gives
\* the "no title" literal.
RobustItemRecord(item) ==
  [ID |-> item.link,
   Title |-> IF item.title = "absent" THEN "no-title" ELSE item.title]

IsValidSummary(rec) == validate_data(rec, {"ID", "Title"})

HasLink(item) == item.link # "absent"

\* extract_recipe_list on a parsed page: final and optimized keep the
\* records that pass validate_data; robust skips the entries without a link
\* and keeps every other record.
ExtractList(v, doc) ==
  IF v = "robust"
    THEN LET linked == SelectSeq(doc.items, HasLink) IN
         [i \in 1..Len(linked) |-> RobustItemRecord(linked[i])]
    ELSE LET recs == [i \in 1..Len(doc.items) |-> ItemRecord(doc.items[i])] IN
         SelectSeq(recs, IsValidSummary)

\* A detail job that hands on a record also when the extraction gave None,
\* for comparison.
JobResultKeepsNone(v, phase, out, key, doc) ==
  IF out = "raised"
    THEN [raise |-> TRUE, recs |-> <<>>, success |-> FALSE]
  ELSE IF phase = "list"
    THEN IF out # "response"
           THEN [raise |-> FALSE, recs |-> <<>>, success |-> FALSE]
         ELSE IF doc.rejected
           THEN [raise |-> TRUE, recs |-> <<>>, success |-> FALSE]
           ELSE [raise |-> FALSE, recs |-> ExtractList(v, doc), success |-> TRUE]
  ELSE IF out = "response" /\ doc = "rejected"
    THEN [raise |-> TRUE, recs |-> <<>>, success |-> FALSE]
  ELSE [raise |-> FALSE, recs |-> <<[ID |-> key]>>,
        success |-> out = "response" /\ doc = "ok"]

\* What one job yields once safe_request is back: `raise` when an exception
\* leaves extract_recipe_list / extract_recipe_detail, else the records and
\* whether the job counts as a success.
JobResult(v, phase, out, key, doc) ==
  IF out = "raised"
    THEN [raise |-> TRUE, recs |-> <<>>, success |-> FALSE]
  ELSE IF out # "response"
    THEN [raise |-> FALSE, recs |-> <<>>, success |-> FALSE]
  ELSE IF phase = "list"
    THEN IF doc.rejected
           THEN [raise |-> TRUE, recs |-> <<>>, success |-> FALSE]
           ELSE [raise |-> FALSE, recs |-> ExtractList(v, doc), success |-> TRUE]
  ELSE IF doc = "rejected"
    THEN [raise |-> TRUE, recs |-> <<>>, success |-> FALSE]
  ELSE IF doc = "unextractable"
    THEN [raise |-> FALSE, recs |-> <<>>, success |-> FALSE]
  ELSE [raise |-> FALSE, recs |-> <<[ID |-> key]>>, success |-> TRUE]

\* The pages the transport may answer a job with: a listing page shows no
\* more entries than the site has left to show.
DocsOf(phase) ==
  IF phase = "list"
    THEN {d \in ListDocs : Len(d.items) <= MaxListed - listed}
    ELSE DetailDocs

\* The entries a job has read from its page.
Shown(phase, out, doc) ==
  IF phase = "list" /\ out = "response" THEN Len(doc.items) ELSE 0

----------------------------------------------------------------------------
(* The batch scheduler of run_optimized. *)

\* The full slices only: the shorter slice at the end is left out.
BatchesFullOnly(seq, size) ==
  [k \in 1..(Len(seq) \div size) |->
     SubSeq(seq, (k - 1) * size + 1, k * size)]

\* [seq[i:i + size] for i in range(0, len(seq), size)]
Batches(seq, size) ==
  [k \in 1..((Len(seq) + size - 1) \div size) |->
     SubSeq(seq, (k - 1) * size + 1, Min(k * size, Len(seq)))]

\* executor.submit for every batch: one pending future per batch.
Submit(batches) ==
  [b \in 1..Len(batches) |->
     [state |-> "pending", jobs |-> batches[b], result |-> <<>>, taken |-> FALSE]]

PageNumbers == [i \in 1..MAX_PAGES |-> i]

\* [food['ID'] for food in self.food_data]
RecipeIds(food) == [i \in 1..Len(food) |-> food[i].ID]

NoOutcomes(n) == [j \in 1..n |-> 0]

\* The phase the run is in, also while it waits for the workers to stop.
Phase == IF run \in {"list", "list_abort"} THEN "list" ELSE "detail"

\* The place in the phase's job list of the job thread t works on.
JobPos(t) == IF t = MainThread THEN idx[t] ELSE (cur[t] - 1) * BATCH_SIZE + idx[t]

\* The job at pos has reached a terminal outcome, a success or a failure.
Record(pos) == [processed EXCEPT ![pos] = @ + 1]

\* The job at pos has given its records, when it counts as a success.
Succeed(pos, success) ==
  IF success THEN [succeeded EXCEPT ![pos] = @ + 1] ELSE succeeded

----------------------------------------------------------------------------
(* Spec: a whole run. *)

Init ==
  Construct /\ NoLoader /\ NoUnit /\ site = FreeSite /\ delay = NoDelay /\ probe = FALSE

\* The thread is done with safe_request and starts no other.
GoIdle(t) ==
  /\ pc' = [pc EXCEPT ![t] = "idle"]
  /\ outcome' = [outcome EXCEPT ![t] = "none"]
  /\ UNCHANGED <<session, attempt, answers, fetches, sleeps, waits>>

\* ThreadPoolExecutor(max_workers=n) raises ValueError unless n > 0.
ExecutorRaises(n) == n <= 0

\* The listing phase starts.  optimized: the pages are cut into batches and
\* every batch is submitted, unless the executor refuses its size and
\* run_optimized raises.  final, robust: the main thread enters its page
\* loop and requests page 1.
BeginList ==
  /\ ~probe
  /\ run = "init"
  /\ run' = IF variant = "optimized" /\ ExecutorRaises(capacity)
              THEN "crashed" ELSE "list"
  /\ processed' = NoOutcomes(MAX_PAGES)
  /\ succeeded' = NoOutcomes(MAX_PAGES)
  /\ IF variant = "optimized"
       THEN /\ futures' = IF ExecutorRaises(capacity)
                             THEN <<>>
                             ELSE Submit(Batches(PageNumbers, BATCH_SIZE))
            /\ UNCHANGED <<jobs, idx, reqVars>>
       ELSE /\ jobs' = [jobs EXCEPT ![MainThread] = PageNumbers]
            /\ idx' = [idx EXCEPT ![MainThread] = 1]
            /\ BeginRequest(MainThread)
            /\ UNCHANGED futures
  /\ UNCHANGED <<data_lock, loaderVars, unitVars, site, delay, variant, capacity, probe, calls, poolVars, acc, cur, food_data,
                 recipe_data, saved, listed>>

\* An idle worker of the executor takes the oldest pending batch and enters
\* process_page_batch / process_recipe_batch with its first job.
StartBatch(w) ==
  /\ variant = "optimized"
  /\ run \in {"list", "list_abort", "detail", "detail_abort"}
  /\ pc[w] = "idle"
  /\ \E b \in DOMAIN futures :
       /\ futures[b].state = "pending"
       /\ \A c \in DOMAIN futures : futures[c].state = "pending" => b <= c
       /\ futures' = [futures EXCEPT ![b].state = "running"]
       /\ cur' = [cur EXCEPT ![w] = b]
       /\ jobs' = [jobs EXCEPT ![w] = futures[b].jobs]
  /\ idx' = [idx EXCEPT ![w] = 1]
  /\ acc' = [acc EXCEPT ![w] = <<>>]
  /\ BeginRequest(w)
  /\ UNCHANGED <<data_lock, loaderVars, unitVars, site, delay, variant, capacity, probe, calls, poolVars, run, food_data, recipe_data,
                 processed, succeeded, saved, listed>>

\* The worker leaves its batch: the future holds `result`, or the exception.
EndBatch(w, state, result) ==
  /\ futures' = [futures EXCEPT ![cur[w]].state = state,
                                ![cur[w]].result = result]
  /\ cur' = [cur EXCEPT ![w] = 0]
  /\ jobs' = [jobs EXCEPT ![w] = <<>>]
  /\ idx' = [idx EXCEPT ![w] = 0]
  /\ acc' = [acc EXCEPT ![w] = <<>>]
  /\ GoIdle(w)

\* The rest of one iteration of process_page_batch / process_recipe_batch:
\* extract_recipe_list or extract_recipe_detail goes on after safe_request,
\* the records join the batch's list, the thread sleeps the short delay and
\* takes the next job of the batch, or returns the batch's list.
BatchStep(w) ==
  /\ variant = "optimized"
  /\ ~probe
  /\ pc[w] = "returned"
  /\ \E doc \in DocsOf(Phase) :
       LET r == JobResult(variant, Phase, outcome[w], jobs[w][idx[w]], doc) IN
       /\ Delivers(w, doc)
       /\ listed' = listed + Shown(Phase, outcome[w], doc)
       /\ IF r.raise
            THEN /\ EndBatch(w, "failed", <<>>)
                 /\ UNCHANGED <<processed, succeeded>>
            ELSE /\ processed' = Record(JobPos(w))
                 /\ succeeded' = Succeed(JobPos(w), r.success)
                 /\ IF idx[w] < Len(jobs[w])
                      THEN /\ acc' = [acc EXCEPT ![w] = @ \o r.recs]
                           /\ idx' = [idx EXCEPT ![w] = @ + 1]
                           /\ BeginRequest(w)
                           /\ UNCHANGED <<futures, cur, jobs>>
                      ELSE EndBatch(w, "done", acc[w] \o r.recs)
  /\ UNCHANGED <<data_lock, loaderVars, unitVars, site, delay, variant, capacity, probe, calls, poolVars, run, food_data, recipe_data,
                 saved>>

\* A faulty extend, for comparison: a batch is added only to an empty list.
ExtendEmpty(data, batch) == IF data = <<>> THEN batch ELSE data

\* list.extend: the records of a batch join the end of the collection.
Extend(data, batch) == data \o batch

\* threading.Lock: acquire waits until no thread holds the lock.
LockFree(lock) == lock = {}

\* A faulty acquire, for comparison: the thread goes on without the lock.
AcquireNothing(lock, t) == lock

Acquire(lock, t) == lock \cup {t}

Release(lock, t) == lock \ {t}

\* for future in as_completed(...): one finished batch is taken;
\* future.result() gives its list, or raises the batch's exception, which
\* leaves the loop.  With the list in hand the main thread enters
\* `with self.data_lock`.
Collect(b) ==
  /\ variant = "optimized"
  /\ run \in {"list", "detail"}
  /\ cur[MainThread] = 0
  /\ futures[b].state \in {"done", "failed"}
  /\ ~futures[b].taken
  /\ futures' = [futures EXCEPT ![b].taken = TRUE]
  /\ IF futures[b].state = "failed"
       THEN /\ run' = IF run = "list" THEN "list_abort" ELSE "detail_abort"
            /\ UNCHANGED <<cur, data_lock>>
       ELSE /\ LockFree(data_lock)
            /\ data_lock' = Acquire(data_lock, MainThread)
            /\ cur' = [cur EXCEPT ![MainThread] = b]
            /\ UNCHANGED run
  /\ UNCHANGED <<loaderVars, unitVars, site, delay, variant, capacity, probe, calls, poolVars, reqVars, jobs, idx, acc,
                 food_data, recipe_data, processed, succeeded, saved, listed>>

\* The body of `with self.data_lock`: the batch's list joins food_data /
\* recipe_data, and the lock is released on the way out.
ExtendLocked ==
  /\ variant = "optimized"
  /\ cur[MainThread] # 0
  /\ IF run = "list"
       THEN /\ food_data' = Extend(food_data, futures[cur[MainThread]].result)
            /\ UNCHANGED recipe_data
       ELSE /\ recipe_data' = Extend(recipe_data, futures[cur[MainThread]].result)
            /\ UNCHANGED food_data
  /\ data_lock' = Release(data_lock, MainThread)
  /\ cur' = [cur EXCEPT ![MainThread] = 0]
  /\ UNCHANGED <<loaderVars, unitVars, site, delay, variant, capacity, probe, calls, poolVars, reqVars, run, jobs, idx,
                 acc, futures, processed, succeeded, saved, listed>>

\* A loop that stops after the first batch it is given, for comparison.
AnyTaken(fs) == \E b \in DOMAIN fs : fs[b].taken

\* Whether as_completed has nothing left to yield.
AllTaken(fs) == \A b \in DOMAIN fs : fs[b].taken

\* The as_completed loop is over and the with-block of the executor is left.
EndPhase ==
  /\ variant = "optimized"
  /\ run \in {"list", "detail"}
  /\ cur[MainThread] = 0
  /\ AllTaken(futures)
  /\ run' = IF run = "list" THEN "between" ELSE "save"
  /\ UNCHANGED <<data_lock, loaderVars, unitVars, site, delay, variant, capacity, probe, calls, poolVars, reqVars, jobs, idx, acc, cur,
                 futures, food_data, recipe_data, processed, succeeded, saved, listed>>

\* An exception left the as_completed loop: the executor's with-block waits
\* for every batch (shutdown(wait=True)), then run_optimized logs and raises.
EndAbort ==
  /\ variant = "optimized"
  /\ run \in {"list_abort", "detail_abort"}
  /\ \A b \in DOMAIN futures : futures[b].state \in {"done", "failed"}
  /\ run' = "crashed"
  /\ UNCHANGED <<data_lock, loaderVars, unitVars, site, delay, variant, capacity, probe, calls, poolVars, reqVars, jobs, idx, acc, cur,
                 futures, food_data, recipe_data, processed, succeeded, saved, listed>>

\* The main thread leaves its loop (final, robust).
EndLoop ==
  /\ jobs' = [jobs EXCEPT ![MainThread] = <<>>]
  /\ idx' = [idx EXCEPT ![MainThread] = 0]
  /\ GoIdle(MainThread)

\* The robust page loop breaks on a page after the first that gave nothing.
Breaks(v, phase, page, recs) ==
  v = "robust" /\ phase = "list" /\ recs = <<>> /\ page > 1

\* The rest of one iteration of the loops of run (final, robust): the
\* extraction goes on after safe_request, the records join food_data /
\* recipe_data, and the loop takes the next job or ends.  An exception that
\* leaves the extraction leaves run.
RunStep ==
  /\ variant # "optimized"
  /\ ~probe
  /\ pc[MainThread] = "returned"
  /\ \E doc \in DocsOf(Phase) :
       LET key == jobs[MainThread][idx[MainThread]]
           r == JobResult(variant, Phase, outcome[MainThread], key, doc)
       IN
       /\ Delivers(MainThread, doc)
       /\ listed' = listed + Shown(Phase, outcome[MainThread], doc)
       /\ IF r.raise
            THEN /\ run' = "crashed"
                 /\ EndLoop
                 /\ UNCHANGED <<food_data, recipe_data, processed, succeeded>>
            ELSE /\ processed' = Record(JobPos(MainThread))
                 /\ succeeded' = Succeed(JobPos(MainThread), r.success)
                 /\ IF Phase = "list"
                      THEN /\ food_data' = food_data \o r.recs
                           /\ UNCHANGED recipe_data
                      ELSE /\ recipe_data' = recipe_data \o r.recs
                           /\ UNCHANGED food_data
                 /\ IF idx[MainThread] < Len(jobs[MainThread])
                       /\ ~Breaks(variant, Phase, key, r.recs)
                      THEN /\ idx' = [idx EXCEPT ![MainThread] = @ + 1]
                           /\ BeginRequest(MainThread)
                           /\ UNCHANGED <<run, jobs>>
                      ELSE /\ run' = IF Phase = "list" THEN "between" ELSE "save"
                           /\ EndLoop
  /\ UNCHANGED <<data_lock, loaderVars, unitVars, site, delay, variant, capacity, probe, calls, poolVars, acc, cur, futures, saved>>

\* The detail phase starts on the ids of food_data.
BeginDetail ==
  /\ run = "between"
  /\ LET recipe_ids == RecipeIds(food_data) IN
     /\ processed' = NoOutcomes(Len(recipe_ids))
     /\ succeeded' = NoOutcomes(Len(recipe_ids))
     /\ IF variant = "optimized"
          THEN /\ futures' = Submit(Batches(recipe_ids, BATCH_SIZE))
               /\ run' = "detail"
               /\ UNCHANGED <<jobs, idx, reqVars>>
          ELSE IF recipe_ids = <<>>
            THEN /\ run' = "save"
                 /\ UNCHANGED <<jobs, idx, reqVars, futures>>
            ELSE /\ run' = "detail"
                 /\ jobs' = [jobs EXCEPT ![MainThread] = recipe_ids]
                 /\ idx' = [idx EXCEPT ![MainThread] = 1]
                 /\ BeginRequest(MainThread)
                 /\ UNCHANGED futures
  /\ UNCHANGED <<data_lock, loaderVars, unitVars, site, delay, variant, capacity, probe, calls, poolVars, acc, cur, food_data,
                 recipe_data, saved, listed>>

\* Whether the statistics after the save divide by zero: final and optimized
\* log len(recipe_data) / len(food_data) unguarded.
StatsRaise(v, food) == v # "robust" /\ Len(food) = 0

\* Whether the save step writes the food files: always in final and
\* optimized, only for a non-empty list in robust.
WritesFiles(v, food) == v # "robust" \/ Len(food) > 0

\* The files are written, then the statistics are logged.
Save ==
  /\ run = "save"
  /\ saved' = [food |-> food_data, recipe |-> recipe_data,
               written |-> WritesFiles(variant, food_data)]
  /\ run' = IF StatsRaise(variant, food_data) THEN "crashed" ELSE "done"
  /\ UNCHANGED <<data_lock, loaderVars, unitVars, site, delay, variant, capacity, probe, calls, poolVars, reqVars, jobs, idx, acc, cur,
                 futures, food_data, recipe_data, processed, succeeded, listed>>

Next ==
  \/ BeginList
  \/ \E w \in Workers : StartBatch(w)
  \/ \E t \in Threads : GetSession(t)
  \/ \E t \in Threads : Attempt(t)
  \/ \E t \in Threads : Leave(t)
  \/ \E w \in Workers : BatchStep(w)
  \/ \E b \in DOMAIN futures : Collect(b)
  \/ ExtendLocked
  \/ EndPhase
  \/ EndAbort
  \/ RunStep
  \/ BeginDetail
  \/ Save

Spec == Init /\ [][Next]_vars

\* A thread that waits in get_session while the pool holds a session is
\* given one: queue.Queue.get wakes a waiting thread.
SpecLive == Spec /\ \A t \in Threads : WF_vars(GetSession(t))

----------------------------------------------------------------------------
(* SpecFixed: a whole run against a fixed site. *)

\* What a fixed site answers for a listing page: a transient failure every
\* time, markup the parser rejects, or a page with no entry or one entry.
ListEntries ==
  {[ans |-> "503", doc |-> [rejected |-> FALSE, items |-> <<>>]],
   [ans |-> "200", doc |-> [rejected |-> TRUE, items |-> <<>>]]} \cup
  {[ans |-> "200", doc |-> [rejected |-> FALSE, items |-> its]] :
     its \in SeqsUpTo([link : ItemIDs, title : {"T"}], 1)}

\* What a fixed site answers for a detail page.
DetailEntries ==
  {[ans |-> "503", doc |-> "unextractable"], [ans |-> "200", doc |-> "ok"]}

RECURSIVE Sum(_)
Sum(ns) == IF ns = <<>> THEN 0 ELSE Head(ns) + Sum(Tail(ns))

\* The entries a fixed listing shows over all its pages.
ListedBy(list) == Sum([p \in DOMAIN list |-> Len(list[p].doc.items)])

\* The fixed sites.  The IDs are interchangeable in the listing, so the
\* detail page of ID "1" is taken as served and that of the others as served
\* or failing.
FixedSites ==
  {[fixed |-> TRUE, list |-> l, detail |-> d] :
     l \in {m \in [1..MAX_PAGES -> ListEntries] : ListedBy(m) <= MaxListed},
     d \in {e \in [ItemIDs -> DetailEntries] : e["1"].ans = "200"}}

InitFixed ==
  Construct /\ NoLoader /\ NoUnit /\ site \in FixedSites /\ delay = NoDelay /\ probe = FALSE

SpecFixed == InitFixed /\ [][Next]_vars

----------------------------------------------------------------------------
(* SpecDelay: the durations of the sleeps. *)

MIN_DELAY ==
  CASE variant = "final" -> FINAL_MIN_DELAY
    [] variant = "optimized" -> OPTIMIZED_MIN_DELAY
    [] OTHER -> ROBUST_MIN_DELAY

MAX_DELAY ==
  CASE variant = "final" -> FINAL_MAX_DELAY
    [] variant = "optimized" -> OPTIMIZED_MAX_DELAY
    [] OTHER -> ROBUST_MAX_DELAY

RETRY_DELAY_MIN ==
  CASE variant = "final" -> FINAL_RETRY_DELAY_MIN
    [] variant = "optimized" -> OPTIMIZED_RETRY_DELAY_MIN
    [] OTHER -> ROBUST_RETRY_DELAY_MIN

RETRY_DELAY_MAX ==
  CASE variant = "final" -> FINAL_RETRY_DELAY_MAX
    [] variant = "optimized" -> OPTIMIZED_RETRY_DELAY_MAX
    [] OTHER -> ROBUST_RETRY_DELAY_MAX

\* A faulty draw, for comparison: the lower end of the range is ignored.
UniformFromZero(a, b) == 0..b

\* random.uniform(a, b), a + (b - a) * random(), on whole seconds: a value
\* between the two ends, whichever of them is the smaller.
Uniform(a, b) == IF a <= b THEN a..b ELSE b..a

InitDelay ==
  /\ Construct
  /\ NoLoader
  /\ NoUnit
  /\ site = FreeSite
  /\ probe = FALSE
  /\ delay = NoDelay

\* time.sleep(random.uniform(MIN_DELAY, MAX_DELAY)): the sleep after a job
\* (final, optimized) or before a fetch (robust).
RateLimitSleep ==
  /\ \E d \in Uniform(MIN_DELAY, MAX_DELAY) :
       delay' = [delay EXCEPT !.rate_slept = TRUE, !.rate = d]
  /\ UNCHANGED <<unitVars, loaderVars, site, variant, capacity, probe, calls, poolVars, reqVars,
                 runVars>>

\* time.sleep(random.uniform(RETRY_DELAY_MIN, RETRY_DELAY_MAX)): the sleep
\* of safe_request before another attempt.
BackoffSleep ==
  /\ \E r \in Uniform(RETRY_DELAY_MIN, RETRY_DELAY_MAX) :
       delay' = [delay EXCEPT !.retry_slept = TRUE, !.retry = r]
  /\ UNCHANGED <<unitVars, loaderVars, site, variant, capacity, probe, calls, poolVars, reqVars,
                 runVars>>

NextDelay == RateLimitSleep \/ BackoffSleep

SpecDelay == InitDelay /\ [][NextDelay]_vars

----------------------------------------------------------------------------
(* SpecValidate: validate_data on its own. *)

Fields == {"ID", "Title", "Author"}

\* The strings the robust extract_recipe_list puts in place of a missing ID,
\* title and author (Korean literals in the source; the one for the author,
\* "no writer", is another string than the "no author" of validate_data).
ExtractorSentinels == {"no-information", "no-title", "no-writer"}

FieldValues == {"", "v"} \cup Sentinels \cup ExtractorSentinels

\* The dicts with some of the fields.
DataDicts == UNION {[D -> FieldValues] : D \in SUBSET Fields}

InitValidate ==
  /\ Construct
  /\ variant = "final"
  /\ probe = FALSE
  /\ NoLoader
  /\ site = FreeSite
  /\ delay = NoDelay
  /\ validation \in [data_dict : DataDicts, required_fields : SUBSET Fields,
                      result : {"none"}, again : {"none"}]
  /\ batching = NoBatching
  /\ held = {}
  /\ search = NoSearch
  /\ lookup = NoLookup
  /\ extraction = NoExtraction
  /\ cleaning = NoCleaning
  /\ disk = NoFiles

\* self.validate_data(data_dict, required_fields)
Validate ==
  /\ validation.result = "none"
  /\ validation' =
       [validation EXCEPT !.result =
          IF validate_data(validation.data_dict, validation.required_fields)
            THEN "True" ELSE "False"]
  /\ UNCHANGED <<batching, held, search, lookup, extraction, cleaning, disk, loaderVars, site, delay, variant, capacity, probe, calls,
                 poolVars, reqVars, runVars>>

\* The same call once more, on the same dict and the same list of fields:
\* validate_data assigns to neither, nor to any attribute of the crawler.
Revalidate ==
  /\ validation.result # "none"
  /\ validation.again = "none"
  /\ validation' =
       [validation EXCEPT !.again =
          IF validate_data(validation.data_dict, validation.required_fields)
            THEN "True" ELSE "False"]
  /\ UNCHANGED <<batching, held, search, lookup, extraction, cleaning, disk, loaderVars, site, delay, variant, capacity, probe, calls,
                 poolVars, reqVars, runVars>>

NextValidate == Validate \/ Revalidate

SpecValidate == InitValidate /\ [][NextValidate]_vars

----------------------------------------------------------------------------
(* SpecZero: a run of a crawler whose pool size is configured as zero. *)

\* __init__ with MAX_WORKERS = 0 / MAX_SESSIONS = 0: the loop of
\* _init_session_pool runs over range(0) and the pool is left empty.
InitZero ==
  /\ variant \in {"optimized", "robust"}
  /\ capacity = 0
  /\ session_pool = <<>>
  /\ created = 0
  /\ Fresh
  /\ probe = FALSE
  /\ NoLoader
  /\ NoUnit
  /\ site = FreeSite
  /\ delay = NoDelay

NextZero ==
  \/ BeginList
  \/ GetSession(MainThread)
  \/ Attempt(MainThread)
  \/ Leave(MainThread)
  \/ RunStep
  \/ BeginDetail
  \/ Save

SpecZero == InitZero /\ [][NextZero]_vars

----------------------------------------------------------------------------
(* SpecPool: get_session and return_session on their own. *)

InitPool ==
  /\ Construct
  /\ variant \in {"optimized", "robust"}
  /\ probe = FALSE
  /\ NoLoader
  /\ NoUnit
  /\ site = FreeSite
  /\ delay = NoDelay

\* session = self.get_session(), called by the client.  The optimized queue
\* blocks while it is empty; the robust list hands out a new session.
PoolGet ==
  /\ IF variant = "optimized"
       THEN /\ session_pool # <<>>
            /\ held' = held \cup {QueueGet(session_pool).item}
            /\ session_pool' = QueueGet(session_pool).rest
            /\ UNCHANGED created
       ELSE IF session_pool # <<>>
         THEN /\ held' = held \cup {ListPop(session_pool).item}
              /\ session_pool' = ListPop(session_pool).rest
              /\ UNCHANGED created
         ELSE /\ created < Capacity + MaxExtra
              /\ held' = held \cup {created + 1}
              /\ created' = created + 1
              /\ UNCHANGED session_pool
  /\ UNCHANGED <<validation, batching, search, lookup, extraction, cleaning, disk, discarded, loaderVars, site, delay,
                 variant, capacity, probe, calls, reqVars, runVars>>

\* self.return_session(s), called by the client with a session it holds.
PoolReturn(s) ==
  /\ s \in held
  /\ session_pool' = ReturnSession(variant, session_pool, s)
  /\ discarded' = IF session_pool' = session_pool
                    THEN discarded \cup {s}
                    ELSE discarded
  /\ held' = held \ {s}
  /\ UNCHANGED <<validation, batching, search, lookup, extraction, cleaning, disk, created, loaderVars, site, delay,
                 variant, capacity, probe, calls, reqVars, runVars>>

NextPool ==
  \/ PoolGet
  \/ \E s \in held : PoolReturn(s)

SpecPool == InitPool /\ [][NextPool]_vars

----------------------------------------------------------------------------
(* SpecBatch: the batches of run_optimized on their own. *)

\* The jobs of a list: page numbers in the listing phase, recipe ids in the
\* detail phase, where one id may stand in the list more than once.
JobKeys == 1..MaxJobs

InitBatch ==
  /\ Construct
  /\ variant = "optimized"
  /\ probe = FALSE
  /\ NoLoader
  /\ site = FreeSite
  /\ delay = NoDelay
  /\ validation = NoValidation
  /\ held = {}
  /\ search = NoSearch
  /\ lookup = NoLookup
  /\ extraction = NoExtraction
  /\ cleaning = NoCleaning
  /\ disk = NoFiles
  /\ batching \in [seq : SeqsUpTo(JobKeys, MaxJobs), size : 1..MaxBatch,
                    batches : {<<>>}, built : {FALSE}]

\* batches = [page_numbers[i:i + BATCH_SIZE] for i in range(0, len(page_numbers), BATCH_SIZE)]
BuildBatches ==
  /\ ~batching.built
  /\ batching' = [batching EXCEPT !.batches = Batches(batching.seq, batching.size),
                                  !.built = TRUE]
  /\ UNCHANGED <<validation, held, search, lookup, extraction, cleaning, disk, loaderVars, site, delay, variant, capacity, probe, calls,
                 poolVars, reqVars, runVars>>

NextBatch == BuildBatches

SpecBatch == InitBatch /\ [][NextBatch]_vars

----------------------------------------------------------------------------
(* SpecLoader: the merge of the food frame and the recipe frame. *)

\* The ID values of the rows of a frame as read_csv returned it.
FrameIDs == {1, 2, 3}

FoodRows == [ID : FrameIDs, Title : {"T", "U"}]

RecipeRows == [ID : FrameIDs, Difficulty : {"easy"}]

\* A faulty key test, for comparison: every pair of rows matches.
KeyMatchesAll(left, right) == TRUE

\* on='ID': a row of the left frame and a row of the right frame match.
KeyMatches(left, right) == left.ID = right.ID

\* The row the merge builds from a matching pair.
MergedRow(left, right) ==
  [ID |-> left.ID, Title |-> left.Title, Difficulty |-> right.Difficulty]

\* The rows of the right frame that match one row of the left frame, merged
\* with it, in the order of the right frame.
MatchesOf(left, right_df) ==
  LET Hit(right) == KeyMatches(left, right)
      hits == SelectSeq(right_df, Hit)
  IN [k \in 1..Len(hits) |-> MergedRow(left, hits[k])]

RECURSIVE Merge(_, _)
\* pd.merge(left_df, right_df, on='ID', how='inner'): one row for every
\* matching pair, in the order of the left frame.
Merge(left_df, right_df) ==
  IF left_df = <<>>
    THEN <<>>
    ELSE MatchesOf(Head(left_df), right_df) \o Merge(Tail(left_df), right_df)

\* The loader holds the two frames read from the files; the crawler plays
\* no part and is held fixed.
InitLoader ==
  /\ Construct
  /\ variant = "final"
  /\ probe = FALSE
  /\ site = FreeSite
  /\ delay = NoDelay
  /\ NoUnit
  /\ food_df \in {Frame(rows) : rows \in SeqsUpTo(FoodRows, MaxRows)}
  /\ recipe_df \in {Frame(rows) : rows \in SeqsUpTo(RecipeRows, MaxRows)}
  /\ merged_df = NoFrame

\* self.merged_df = pd.merge(self.food_df, self.recipe_df, on='ID', how='inner')
MergeFrames ==
  /\ ~merged_df.loaded
  /\ food_df.loaded /\ recipe_df.loaded
  /\ merged_df' = Frame(Merge(food_df.rows, recipe_df.rows))
  /\ UNCHANGED <<food_df, recipe_df, unitVars, site, delay, variant, capacity, probe, calls, poolVars,
                 reqVars, runVars>>

NextLoader == MergeFrames

SpecLoader == InitLoader /\ [][NextLoader]_vars

----------------------------------------------------------------------------
(* SpecGetById: GET /recipes/{recipe_id} on the files the crawler wrote. *)

\* The ID cells of the CSV files: item ids, which are numbers, and the
\* literal the robust crawler writes for a link without an id.
NumericCells == {"1", "2", "3"}

IdCells == {"1", "2", "no-information"}

FoodFiles == SeqsUpTo([ID : IdCells, Title : {"T"}], MaxFile) \ {<<>>}

RecipeFiles == SeqsUpTo([ID : IdCells, Difficulty : {"easy"}], MaxFile) \ {<<>>}

\* The dtype pd.read_csv infers for the ID column: int64 when every cell
\* is a number, object (the cells kept as str) otherwise.
DtypeOf(file) ==
  IF \A i \in 1..Len(file) : file[i].ID \in NumericCells
    THEN "int64" ELSE "object"

\* pd.read_csv(file): the rows with their ID parsed to the column's dtype.
\* A value is its kind, int or str, and its digits or text.
ReadCsv(file) ==
  [i \in 1..Len(file) |->
     [file[i] EXCEPT !.ID = [kind |-> IF DtypeOf(file) = "int64" THEN "int" ELSE "str",
                             text |-> file[i].ID]]]

\* pd.merge raises ValueError on key columns of int64 and object dtype.
MergeRaises(food_file, recipe_file) == DtypeOf(food_file) # DtypeOf(recipe_file)

\* self.merged_df['ID'] == recipe_id, recipe_id a str: an int never equals
\* a str.
EqualsStr(value, recipe_id) == value.kind = "str" /\ value.text = recipe_id

InitGetById ==
  /\ Construct
  /\ variant = "final"
  /\ probe = FALSE
  /\ NoLoader
  /\ site = FreeSite
  /\ delay = NoDelay
  /\ validation = NoValidation
  /\ batching = NoBatching
  /\ held = {}
  /\ search = NoSearch
  /\ lookup \in [food_file : FoodFiles, recipe_file : RecipeFiles,
                  recipe_id : IdCells \cup NumericCells, status : {"none"},
                  recipe : {<<>>}]
  /\ extraction = NoExtraction
  /\ cleaning = NoCleaning
  /\ disk = NoFiles

\* GET /recipes/{recipe_id}: loader.get_recipe_by_id loads the files, merges
\* them and selects the rows whose ID equals recipe_id; the endpoint answers
\* 404 for None and lets an exception of the load through (500).
GetRecipeById ==
  /\ lookup.status = "none"
  /\ food_df' = Frame(ReadCsv(lookup.food_file))
  /\ recipe_df' = Frame(ReadCsv(lookup.recipe_file))
  /\ IF MergeRaises(lookup.food_file, lookup.recipe_file)
       THEN /\ UNCHANGED merged_df
            /\ lookup' = [lookup EXCEPT !.status = "500"]
       ELSE LET merged == Merge(ReadCsv(lookup.food_file), ReadCsv(lookup.recipe_file))
                Hit(row) == EqualsStr(row.ID, lookup.recipe_id)
                recipe == SelectSeq(merged, Hit)
            IN /\ merged_df' = Frame(merged)
               /\ lookup' = IF recipe # <<>>
                              THEN [lookup EXCEPT !.status = "200",
                                                  !.recipe = <<recipe[1]>>]
                              ELSE [lookup EXCEPT !.status = "404"]
  /\ UNCHANGED <<validation, batching, held, search, extraction, cleaning, disk, site, delay, variant,
                 capacity, probe, calls, poolVars, reqVars, runVars>>

NextGetById == GetRecipeById

SpecGetById == InitGetById /\ [][NextGetById]_vars

----------------------------------------------------------------------------
(* The search of api_server.py: RecipeDataLoader.search_recipes. *)

\* The characters of the titles, ingredients and authors drawn.
Letters == {"a", "A", "b"}

\* The characters of the preparation times drawn: digits, "m" for the
\* minute token of the source (a Korean syllable) and "x" for any other.
Minute == "m"

Digits == {"0", "1", "3", "5", "6"}

DigitValue(c) ==
  CASE c = "0" -> 0 [] c = "1" -> 1 [] c = "3" -> 3 [] c = "5" -> 5
    [] c = "6" -> 6

\* re.IGNORECASE on one character.
Fold(c) == IF c = "A" THEN "a" ELSE c

\* One element of a regular expression of literals and dots against one
\* character: the dot matches any character.
CharMatches(p, c) == p = "." \/ Fold(p) = Fold(c)

\* re.search(pat, text, re.IGNORECASE) for a pattern of literals and dots.
ReSearch(pat, text) ==
  \E i \in 1..(Len(text) - Len(pat) + 1) :
    \A k \in 1..Len(pat) : CharMatches(pat[k], text[i + k - 1])

\* Series.str.contains(pat, case=False, na=False): pat is a regular
\* expression (regex=True is the default), a missing value matches nothing.
StrContains(text, pat) == text # <<>> /\ ReSearch(pat, text)

RECURSIVE ToInt(_)
\* int / astype(float) on a run of digits.
ToInt(ds) ==
  IF ds = <<>> THEN 0 ELSE ToInt(Front(ds)) * 10 + DigitValue(Last(ds))

\* Whether r'(\d+)<minute>' matches text from position i with its group
\* ending at position j.
MatchesAt(text, i, j) ==
  /\ i <= j
  /\ j < Len(text)
  /\ \A k \in i..j : text[k] \in Digits
  /\ text[j + 1] = Minute

\* A faulty extraction, for comparison: the first run of digits, whatever
\* follows it.
ExtractAnyNumber(text) ==
  LET starts == {i \in 1..Len(text) : text[i] \in Digits}
  IN IF starts = {}
       THEN [matched |-> FALSE, minutes |-> 0]
       ELSE LET i == CHOOSE a \in starts : \A b \in starts : a <= b
                ends == {e \in i..Len(text) : \A k \in i..e : text[k] \in Digits}
                j == CHOOSE e \in ends : \A f \in ends : f <= e
            IN [matched |-> TRUE, minutes |-> ToInt(SubSeq(text, i, j))]

\* str.extract(time_pattern) / re.search(time_pattern, text).group(1): the
\* leftmost match, its group as long as it can be.
ExtractMinutes(text) ==
  LET starts == {i \in 1..Len(text) : \E j \in i..Len(text) : MatchesAt(text, i, j)}
  IN IF starts = {}
       THEN [matched |-> FALSE, minutes |-> 0]
       ELSE LET i == CHOOSE a \in starts : \A b \in starts : a <= b
                ends == {e \in i..Len(text) : MatchesAt(text, i, e)}
                j == CHOOSE e \in ends : \A f \in ends : f <= e
            IN [matched |-> TRUE, minutes |-> ToInt(SubSeq(text, i, j))]

\* filtered_df['time_minutes'] <= max_time: NaN compares False.
WithinTime(text, max_time) ==
  ExtractMinutes(text).matched /\ ExtractMinutes(text).minutes <= max_time

\* The four filters of search_recipes, each applied only for an argument
\* that is truthy.
Filtered(df, query, author, difficulty, max_time) ==
  LET Keep(r) ==
        /\ query # <<>> =>
             StrContains(r.Title, query) \/ StrContains(r.Ingredient, query)
        /\ author # <<>> => StrContains(r.Author, author)
        /\ difficulty # <<>> => r.Difficulty = difficulty
        /\ max_time # 0 => WithinTime(r.Preparation_Time, max_time)
  IN SelectSeq(df, Keep)

\* DataFrame.iloc[start_idx:end_idx]
ILoc(rows, start_idx, end_idx) ==
  SubSeq(rows, start_idx + 1, Min(end_idx, Len(rows)))

\* A faulty paging, for comparison: the pages are counted from 0.
PaginateFromZero(rows, page, per_page) ==
  ILoc(rows, page * per_page, page * per_page + per_page)

\* start_idx = (page - 1) * per_page; end_idx = start_idx + per_page
Paginate(rows, page, per_page) ==
  ILoc(rows, (page - 1) * per_page, (page - 1) * per_page + per_page)

\* The state in which search_recipes is called with one of the calls S.
SearchCalls(S) ==
  /\ Construct
  /\ variant = "final"
  /\ probe = FALSE
  /\ NoLoader
  /\ site = FreeSite
  /\ delay = NoDelay
  /\ validation = NoValidation
  /\ batching = NoBatching
  /\ held = {}
  /\ lookup = NoLookup
  /\ extraction = NoExtraction
  /\ cleaning = NoCleaning
  /\ disk = NoFiles
  /\ search \in S

\* loader.search_recipes(query, author, difficulty, max_time, page, per_page)
SearchRecipes ==
  /\ search.endpoint = "search"
  /\ ~search.done
  /\ LET filtered_df == Filtered(search.merged_df, search.query, search.author,
                                  search.difficulty, search.max_time)
     IN search' = [search EXCEPT
                     !.done = TRUE,
                     !.total_count = Len(filtered_df),
                     !.recipes = Paginate(filtered_df, search.page, search.per_page)]
  /\ UNCHANGED <<validation, batching, held, lookup, extraction, cleaning, disk, loaderVars, site, delay, variant,
                 capacity, probe, calls, poolVars, reqVars, runVars>>

NextSearch == SearchRecipes

\* GET /recipes: get_recipes(page, per_page) slices loader.merged_df and
\* returns the records alone.
GetRecipes ==
  /\ search.endpoint = "recipes"
  /\ ~search.done
  /\ search' = [search EXCEPT
                  !.done = TRUE,
                  !.recipes = Paginate(search.merged_df, search.page, search.per_page)]
  /\ UNCHANGED <<validation, batching, held, lookup, extraction, cleaning, disk, loaderVars, site, delay, variant,
                 capacity, probe, calls, poolVars, reqVars, runVars>>

\* The rows of a merged frame: a title, an ingredient text and a difficulty
\* vary in SpecSearchText.
Words == SeqsUpTo(Letters, MaxWord)

TextRecipes ==
  [ID : {1}, Title : Words, Ingredient : {<<>>, <<"b">>}, Author : {<<"a">>},
   Difficulty : {<<"a">>, <<"A">>}, Preparation_Time : {<<"x">>}]

\* The search words: literals and the dot.
Queries == SeqsUpTo(Letters \cup {"."}, MaxWord)

InitSearchText ==
  SearchCalls([merged_df : SeqsUpTo(TextRecipes, MaxHits), query : Queries,
               author : {<<>>}, difficulty : {<<>>, <<"a">>}, max_time : {0},
               page : {1}, per_page : {DEFAULT_PER_PAGE},
               endpoint : {"search"}, done : {FALSE},
               total_count : {0}, recipes : {<<>>}, time_dist : {NoDist}])

SpecSearchText == InitSearchText /\ [][NextSearch]_vars

\* The rows of a merged frame: an author and a difficulty vary in
\* SpecSearchAuthor.
AuthorRecipes ==
  [ID : {1}, Title : {<<"a">>}, Ingredient : {<<"b">>}, Author : Words,
   Difficulty : {<<"a">>, <<"A">>, <<"a", "b">>}, Preparation_Time : {<<"x">>}]

InitSearchAuthor ==
  SearchCalls([merged_df : SeqsUpTo(AuthorRecipes, MaxHits), query : {<<>>},
               author : Words, difficulty : {<<>>, <<"a">>}, max_time : {0},
               page : {1}, per_page : {DEFAULT_PER_PAGE},
               endpoint : {"search"}, done : {FALSE},
               total_count : {0}, recipes : {<<>>}, time_dist : {NoDist}])

SpecSearchAuthor == InitSearchAuthor /\ [][NextSearch]_vars

\* The merged frames of SpecPage: rows with the IDs 1, 2, ... in order and
\* one of two difficulties each.
PagedFrames ==
  UNION {[1..n -> [Title : {<<"a">>}, Ingredient : {<<"b">>}, Author : {<<"a">>},
                   Difficulty : {<<"a">>, <<"A">>}, Preparation_Time : {<<"x">>}]]
           : n \in 0..MaxPaged}

WithIDs(rows) ==
  [i \in 1..Len(rows) |->
     [ID |-> i, Title |-> rows[i].Title, Ingredient |-> rows[i].Ingredient,
      Author |-> rows[i].Author, Difficulty |-> rows[i].Difficulty,
      Preparation_Time |-> rows[i].Preparation_Time]]

\* page: Query(1, ge=1); per_page: Query(20, ge=1, le=100).
InitPage ==
  SearchCalls([merged_df : {WithIDs(rows) : rows \in PagedFrames}, query : {<<>>},
               author : {<<>>}, difficulty : {<<>>, <<"a">>}, max_time : {0},
               page : 1..MaxPage, per_page : 1..MaxPerPage,
               endpoint : {"search", "recipes"}, done : {FALSE},
               total_count : {0}, recipes : {<<>>}, time_dist : {NoDist}])

NextPage ==
  \/ SearchRecipes
  \/ GetRecipes

SpecPage == InitPage /\ [][NextPage]_vars

\* The cooking times get_statistics collects: for every row whose
\* Preparation_Time holds the minute token and matches time_pattern, the
\* number of the match.
CookingTimes(df) ==
  LET Timed(r) == /\ \E k \in 1..Len(r.Preparation_Time) : r.Preparation_Time[k] = Minute
                  /\ ExtractMinutes(r.Preparation_Time).matched
      timed == SelectSeq(df, Timed)
  IN [i \in 1..Len(timed) |-> ExtractMinutes(timed[i].Preparation_Time).minutes]

\* The positions of a list, for len([t for t in cooking_times if ...]).
Positions(times) == 1..Len(times)

\* A faulty histogram, for comparison: the second bucket has no lower end.
TimeDistOverlapping(times) ==
  <<Cardinality({i \in Positions(times) : times[i] <= 15}),
    Cardinality({i \in Positions(times) : times[i] <= 30}),
    Cardinality({i \in Positions(times) : 30 < times[i] /\ times[i] <= 60}),
    Cardinality({i \in Positions(times) : times[i] > 60})>>

\* time_dist: t <= 15, 15 < t <= 30, 30 < t <= 60, t > 60.
TimeDist(times) ==
  <<Cardinality({i \in Positions(times) : times[i] <= 15}),
    Cardinality({i \in Positions(times) : 15 < times[i] /\ times[i] <= 30}),
    Cardinality({i \in Positions(times) : 30 < times[i] /\ times[i] <= 60}),
    Cardinality({i \in Positions(times) : times[i] > 60})>>

\* GET /statistics: get_statistics, its cooking_time_distribution.
GetStatistics ==
  /\ search.endpoint = "statistics"
  /\ ~search.done
  /\ search' = [search EXCEPT
                  !.done = TRUE,
                  !.time_dist = TimeDist(CookingTimes(search.merged_df))]
  /\ UNCHANGED <<validation, batching, held, lookup, extraction, cleaning, disk, loaderVars, site, delay,
                 variant, capacity, probe, calls, poolVars, reqVars, runVars>>

\* The preparation times of SpecStats: 15, 16, 30, 31, 60, 61 and 0
\* minutes, hours before the minutes, a number without the minute token
\* and no number.
StatTexts ==
  {<<"1", "5", Minute>>, <<"1", "6", Minute>>, <<"3", "0", Minute>>,
   <<"3", "1", Minute>>, <<"6", "0", Minute>>, <<"6", "1", Minute, "x">>,
   <<"0", Minute>>, <<"1", "x", "3", "0", Minute>>, <<"1", "x">>, <<"x">>}

StatRecipes ==
  [ID : {1}, Title : {<<"a">>}, Ingredient : {<<"b">>}, Author : {<<"a">>},
   Difficulty : {<<"a">>}, Preparation_Time : StatTexts]

InitStats ==
  SearchCalls([merged_df : SeqsUpTo(StatRecipes, MaxRows), query : {<<>>},
               author : {<<>>}, difficulty : {<<>>}, max_time : {0},
               page : {1}, per_page : {DEFAULT_PER_PAGE},
               endpoint : {"statistics"}, done : {FALSE},
               total_count : {0}, recipes : {<<>>}, time_dist : {NoDist}])

NextStats == GetStatistics

SpecStats == InitStats /\ [][NextStats]_vars

\* The characters of the preparation times drawn in SpecSearchTime.
TimeChars == {"3", "0", Minute, "x"}

\* The preparation times of a column that read_csv keeps as text: each has
\* a character that is no digit.
TimeTexts ==
  {t \in SeqsUpTo(TimeChars, MaxText) : \E k \in 1..Len(t) : t[k] \notin Digits}

TimeRecipes ==
  [ID : {1}, Title : {<<"a">>}, Ingredient : {<<"b">>}, Author : {<<"a">>},
   Difficulty : {<<"a">>}, Preparation_Time : TimeTexts]

\* The values of max_time drawn.
MaxTimes == {1, 3, 20, 30, 33}

InitSearchTime ==
  SearchCalls([merged_df : {<<r>> : r \in TimeRecipes}, query : {<<>>},
               author : {<<>>}, difficulty : {<<>>}, max_time : MaxTimes,
               page : {1}, per_page : {DEFAULT_PER_PAGE},
               endpoint : {"search"}, done : {FALSE},
               total_count : {0}, recipes : {<<>>}, time_dist : {NoDist}])

SpecSearchTime == InitSearchTime /\ [][NextSearch]_vars


----------------------------------------------------------------------------
(* SpecReload: load_latest_data of api_server.py and the files it reads.   *)
(* A file name is a number, ordered as max() orders the names; a slot of   *)
(* disk.food / disk.recipe is the file of that name, if it exists.  The    *)
(* modification time of a file is the tick of the clock at which it was    *)
(* created or last written.                                                *)

NoFile == [exists |-> FALSE, mtime |-> 0, rows |-> <<>>]

File(mtime, rows) == [exists |-> TRUE, mtime |-> mtime, rows |-> rows]

\* The contents written to food files and to recipe files.
FoodContents == {<<[ID |-> 1, Title |-> "T"]>>, <<[ID |-> 2, Title |-> "U"]>>}

RecipeContents ==
  {<<[ID |-> 1, Difficulty |-> "easy"]>>, <<[ID |-> 2, Difficulty |-> "easy"]>>}

\* glob.glob(pattern): the names of the files that exist.
Glob(files) == {n \in DOMAIN files : files[n].exists}

\* max(names)
Max(names) == CHOOSE n \in names : \A m \in names : m <= n

\* self.last_loaded is None: no tick is 0.
NoneLoaded == 0

\* self.last_loaded is None or mtime > self.last_loaded
Newer(mtime, last_loaded) == last_loaded = NoneLoaded \/ mtime > last_loaded

InitReload ==
  /\ Construct
  /\ variant = "final"
  /\ probe = FALSE
  /\ NoLoader
  /\ site = FreeSite
  /\ delay = NoDelay
  /\ validation = NoValidation
  /\ batching = NoBatching
  /\ held = {}
  /\ search = NoSearch
  /\ lookup = NoLookup
  /\ extraction = NoExtraction
  /\ cleaning = NoCleaning
  /\ disk = [NoFiles EXCEPT !.food = [n \in 1..MaxNames |-> NoFile],
                            !.recipe = [n \in 1..MaxNames |-> NoFile]]

\* The clock of the file system moves on.
Tick ==
  /\ disk.now < MaxClock
  /\ disk' = [disk EXCEPT !.now = @ + 1, !.status = "none"]
  /\ UNCHANGED <<validation, batching, held, search, lookup, extraction, cleaning,
                 loaderVars, site, delay, variant, capacity, probe, calls,
                 poolVars, reqVars, runVars>>

\* A crawler's save step, or anyone, creates a food file or a recipe file.
CreateFile ==
  /\ \/ \E n \in 1..MaxNames, rows \in FoodContents :
          /\ ~disk.food[n].exists
          /\ disk' = [disk EXCEPT !.food[n] = File(disk.now, rows), !.status = "none"]
     \/ \E n \in 1..MaxNames, rows \in RecipeContents :
          /\ ~disk.recipe[n].exists
          /\ disk' = [disk EXCEPT !.recipe[n] = File(disk.now, rows), !.status = "none"]
  /\ UNCHANGED <<validation, batching, held, search, lookup, extraction, cleaning,
                 loaderVars, site, delay, variant, capacity, probe, calls,
                 poolVars, reqVars, runVars>>

\* A file is written again.
ModifyFile ==
  /\ \/ \E n \in 1..MaxNames, rows \in FoodContents :
          /\ disk.food[n].exists
          /\ disk' = [disk EXCEPT !.food[n] = File(disk.now, rows), !.status = "none"]
     \/ \E n \in 1..MaxNames, rows \in RecipeContents :
          /\ disk.recipe[n].exists
          /\ disk' = [disk EXCEPT !.recipe[n] = File(disk.now, rows), !.status = "none"]
  /\ UNCHANGED <<validation, batching, held, search, lookup, extraction, cleaning,
                 loaderVars, site, delay, variant, capacity, probe, calls,
                 poolVars, reqVars, runVars>>

\* self.load_latest_data(): FileNotFoundError without a file of either kind;
\* else the latest file of each kind is read and the frames are merged when
\* nothing was loaded yet or one of the two is newer than last_loaded.
LoadLatestData ==
  /\ disk.status = "none"
  /\ IF Glob(disk.food) = {} \/ Glob(disk.recipe) = {}
       THEN /\ disk' = [disk EXCEPT !.status = "error"]
            /\ UNCHANGED loaderVars
       ELSE LET latest_food_file == disk.food[Max(Glob(disk.food))]
                latest_recipe_file == disk.recipe[Max(Glob(disk.recipe))]
                food_mtime == latest_food_file.mtime
                recipe_mtime == latest_recipe_file.mtime
            IN IF \/ Newer(food_mtime, disk.last_loaded)
                  \/ Newer(recipe_mtime, disk.last_loaded)
                 THEN /\ food_df' = Frame(latest_food_file.rows)
                      /\ recipe_df' = Frame(latest_recipe_file.rows)
                      /\ merged_df' = Frame(Merge(latest_food_file.rows,
                                                  latest_recipe_file.rows))
                      /\ disk' = [disk EXCEPT
                                    !.last_loaded = IF food_mtime >= recipe_mtime
                                                      THEN food_mtime ELSE recipe_mtime,
                                    !.status = "ok"]
                 ELSE /\ disk' = [disk EXCEPT !.status = "ok"]
                      /\ UNCHANGED loaderVars
  /\ UNCHANGED <<validation, batching, held, search, lookup, extraction, cleaning,
                 site, delay, variant, capacity, probe, calls,
                 poolVars, reqVars, runVars>>

NextReload == Tick \/ CreateFile \/ ModifyFile \/ LoadLatestData

SpecReload == InitReload /\ [][NextReload]_vars

----------------------------------------------------------------------------
(* Texts: clean_text.  A text is a sequence of characters; "LF", "CR" and  *)
(* "TAB" stand for the line feed, the carriage return and the tab.         *)

\* The characters \s matches and str.strip removes.
Whitespace == {" ", "LF", "CR", "TAB"}

IsSpace(c) == c \in Whitespace

\* text.strip()
RECURSIVE LStrip(_)
LStrip(text) ==
  IF text # <<>> /\ IsSpace(Head(text)) THEN LStrip(Tail(text)) ELSE text

RECURSIVE RStrip(_)
RStrip(text) ==
  IF text # <<>> /\ IsSpace(text[Len(text)])
    THEN RStrip(SubSeq(text, 1, Len(text) - 1))
    ELSE text

Strip(text) == RStrip(LStrip(text))

\* A substitution with the pattern ' +' for comparison: only runs of the
\* space character are replaced.
RECURSIVE CollapseBlanks(_)
CollapseBlanks(text) ==
  IF text = <<>> THEN <<>>
  ELSE IF Head(text) = " "
    THEN LET rest == CollapseBlanks(Tail(text)) IN
         IF rest # <<>> /\ Head(rest) = " " THEN rest ELSE <<" ">> \o rest
  ELSE <<Head(text)>> \o CollapseBlanks(Tail(text))

\* re.sub(r'\s+', ' ', text): every maximal run of whitespace becomes one
\* space.
RECURSIVE Collapse(_)
Collapse(text) ==
  IF text = <<>> THEN <<>>
  ELSE IF IsSpace(Head(text))
    THEN <<" ">> \o Collapse(LStrip(Tail(text)))
  ELSE <<Head(text)>> \o Collapse(Tail(text))

\* text.replace('\n', ' ').replace('\r', ' ')
ReplaceBreaks(text) ==
  [i \in DOMAIN text |-> IF text[i] \in {"LF", "CR"} THEN " " ELSE text[i]]

\* A str argument, or None.
None == [none |-> TRUE, chars |-> <<>>]

Str(chars) == [none |-> FALSE, chars |-> chars]

\* clean_text(text): "" for None and for the empty string.
clean_text(text) ==
  IF text.none \/ text.chars = <<>>
    THEN <<>>
    ELSE ReplaceBreaks(Collapse(Strip(text.chars)))

\* The characters of the texts drawn: a letter and the whitespace.
TextChars == {"a"} \cup Whitespace

\* The arguments drawn: None, and the texts of up to MaxRaw characters.
RawTexts == {None} \cup {Str(chars) : chars \in SeqsUpTo(TextChars, MaxRaw)}

InitClean ==
  /\ Construct
  /\ variant = "final"
  /\ probe = FALSE
  /\ NoLoader
  /\ site = FreeSite
  /\ delay = NoDelay
  /\ validation = NoValidation
  /\ batching = NoBatching
  /\ held = {}
  /\ search = NoSearch
  /\ lookup = NoLookup
  /\ extraction = NoExtraction
  /\ disk = NoFiles
  /\ cleaning \in [text : RawTexts, result : {<<>>}, again : {<<>>}, calls : {0}]

\* result = self.clean_text(text)
CleanText ==
  /\ cleaning.calls = 0
  /\ cleaning' = [cleaning EXCEPT !.result = clean_text(cleaning.text), !.calls = 1]
  /\ UNCHANGED <<validation, batching, held, search, lookup, extraction, disk,
                 loaderVars, site, delay, variant, capacity, probe, calls,
                 poolVars, reqVars, runVars>>

\* self.clean_text(result): the result cleaned once more.
CleanAgain ==
  /\ cleaning.calls = 1
  /\ cleaning' = [cleaning EXCEPT !.again = clean_text(Str(cleaning.result)),
                                  !.calls = 2]
  /\ UNCHANGED <<validation, batching, held, search, lookup, extraction, disk,
                 loaderVars, site, delay, variant, capacity, probe, calls,
                 poolVars, reqVars, runVars>>

NextClean == CleanText \/ CleanAgain

SpecClean == InitClean /\ [][NextClean]_vars

----------------------------------------------------------------------------
(* extract_ingredients of the final and the optimized crawler ("method")   *)
(* and the same steps in the script 10000recipe.py ("script").             *)

\* The keywords and literals of the source, one ASCII character for each
\* Korean syllable: "jr" the ingredient keyword, "lsp" the recipe keyword,
\* "yn" the condiment keyword, "eu" the word for "none", "cm" the word for
\* "title".
KwIngredient == <<"j", "r">>

KwRecipe == <<"l", "s", "p">>

KwCondiment == <<"y", "n">>

NoIngredientText == KwIngredient \o <<" ", "e", "u">>

NoCondimentText == KwCondiment \o <<" ", "e", "u">>

NoTitleText == <<"c", "m", " ", "e", "u">>

\* An element a selector looked for: found with its text, or not found.
Absent == [present |-> FALSE, text |-> <<>>]

Element(text) == [present |-> TRUE, text |-> text]

\* kw in title
Contains(kw, title) ==
  \E i \in 1..(Len(title) - Len(kw) + 1) : SubSeq(title, i, i + Len(kw) - 1) = kw

\* The title of a group as the branch tests read it: the cleaned text of
\* b.ready_ingre3_tt; without the element, '' in the method and the
\* "no title" literal in the script.
GroupTitle(source, title_tag) ==
  IF title_tag.present
    THEN IF source = "method" THEN clean_text(Str(title_tag.text))
                              ELSE Strip(title_tag.text)
    ELSE IF source = "method" THEN <<>> ELSE NoTitleText

\* The branches tested in the other order, for comparison.
GroupClassCondimentFirst(title) ==
  IF Contains(KwCondiment, title) THEN "condiment"
  ELSE IF Contains(KwIngredient, title) \/ Contains(KwRecipe, title) THEN "ingredient"
  ELSE "none"

\* if '..' in title or '..' in title: ... elif '..' in title: ...
GroupClass(title) ==
  IF Contains(KwIngredient, title) \/ Contains(KwRecipe, title) THEN "ingredient"
  ELSE IF Contains(KwCondiment, title) THEN "condiment"
  ELSE "none"

\* An a element of a group: without contents it is skipped, with a text as
\* first content it gives a name, with an element as first content
\* clean_text / strip raises on it.
HasContents(a) == a.kind # "empty"

\* ', '.join(ingredients)
RECURSIVE Join(_)
Join(names) ==
  IF names = <<>> THEN <<>>
  ELSE IF Len(names) = 1 THEN names[1]
  ELSE names[1] \o <<",", " ">> \o Join(Tail(names))

\* joined_ingredients of one group.
JoinedIngredients(source, anchors) ==
  LET with == SelectSeq(anchors, HasContents)
      ingredients ==
        [i \in 1..Len(with) |->
           IF source = "method" THEN clean_text(Str(with[i].text))
                                ELSE Strip(with[i].text)]
  IN IF ingredients # <<>> THEN Join(ingredients) ELSE NoIngredientText

\* f"{title}: {body}"
Titled(title, body) == title \o <<":", " ">> \o body

\* Whether reading the names of a group raises.
NamesRaise(anchors) == \E i \in 1..Len(anchors) : anchors[i].kind = "tag"

\* The for loop over ingred_items from item i on, with the two texts so far.
RECURSIVE WalkGroups(_, _, _, _, _)
WalkGroups(source, groups, i, ingredient_text, condiment_text) ==
  IF i > Len(groups)
    THEN [raise |-> FALSE, ingredient_text |-> ingredient_text,
          condiment_text |-> condiment_text]
  ELSE IF NamesRaise(groups[i].anchors)
    THEN [raise |-> TRUE, ingredient_text |-> <<>>, condiment_text |-> <<>>]
  ELSE LET title == GroupTitle(source, groups[i].title_tag)
           text == Titled(title, JoinedIngredients(source, groups[i].anchors))
           class == GroupClass(title)
       IN WalkGroups(source, groups, i + 1,
                     IF class = "ingredient" THEN text ELSE ingredient_text,
                     IF class = "condiment" THEN text ELSE condiment_text)

\* The branch taken when no group was selected: the dt and dd of
\* div.cont_ingre.  The method changes the text only when both exist; the
\* script puts a literal in place of a missing one.
Fallback(source, dt, dd) ==
  IF source = "method"
    THEN IF dt.present /\ dd.present
           THEN Titled(clean_text(Str(dt.text)), clean_text(Str(dd.text)))
           ELSE NoIngredientText
    ELSE Titled(IF dt.present THEN Strip(dt.text) ELSE NoTitleText,
                IF dd.present THEN Strip(dd.text) ELSE NoIngredientText)

\* extract_ingredients(soup), and lines 76-98 of the script.
extract_ingredients(source, doc) ==
  IF doc.groups = <<>>
    THEN [raise |-> FALSE,
          ingredient_text |-> Fallback(source, doc.dt, doc.dd),
          condiment_text |-> NoCondimentText]
    ELSE WalkGroups(source, doc.groups, 1, NoIngredientText, NoCondimentText)

\* The group titles drawn: each keyword alone, the condiment keyword with
\* the ingredient keyword, the condiment keyword after another character, a
\* title with no keyword and surrounding whitespace, and no title element.
TitleTags ==
  {Absent, Element(KwIngredient), Element(KwRecipe), Element(KwCondiment),
   Element(KwCondiment \o KwIngredient), Element(<<"x">> \o KwCondiment),
   Element(<<" ", "x", " ">>)}

\* The a elements of a group drawn: none, one without contents, one whose
\* first content is an element, one name, two names, and a name after an a
\* element without contents.
AnchorLists ==
  LET empty == [kind |-> "empty", text |-> <<>>]
      tag == [kind |-> "tag", text |-> <<>>]
      a == [kind |-> "text", text |-> <<"a", " ">>]
      b == [kind |-> "text", text |-> <<"b">>]
  IN {<<>>, <<empty>>, <<tag>>, <<a>>, <<a, b>>, <<empty, b>>}

Groups == [title_tag : TitleTags, anchors : AnchorLists]

\* The detail pages drawn: no group and any of dt and dd, or up to
\* MaxGroups groups and both dt and dd.
DetailPages ==
  {[groups |-> <<>>, dt |-> dt, dd |-> dd] :
     dt \in {Absent, Element(<<"t">>)}, dd \in {Absent, Element(<<"d", " ">>)}}
  \cup
  {[groups |-> gs, dt |-> Element(<<"t">>), dd |-> Element(<<"d", " ">>)] :
     gs \in SeqsUpTo(Groups, MaxGroups) \ {<<>>}}

InitExtract ==
  /\ Construct
  /\ variant = "final"
  /\ probe = FALSE
  /\ NoLoader
  /\ site = FreeSite
  /\ delay = NoDelay
  /\ validation = NoValidation
  /\ batching = NoBatching
  /\ held = {}
  /\ search = NoSearch
  /\ lookup = NoLookup
  /\ cleaning = NoCleaning
  /\ disk = NoFiles
  /\ extraction \in [doc : DetailPages, source : {"method", "script"},
                      done : {FALSE}, raised : {FALSE},
                      ingredient_text : {<<>>}, condiment_text : {<<>>}]

\* ingredient_text, condiment_text = self.extract_ingredients(soup)
ExtractIngredients ==
  /\ ~extraction.done
  /\ LET r == extract_ingredients(extraction.source, extraction.doc) IN
     extraction' = [extraction EXCEPT !.done = TRUE, !.raised = r.raise,
                                      !.ingredient_text = r.ingredient_text,
                                      !.condiment_text = r.condiment_text]
  /\ UNCHANGED <<validation, batching, held, search, lookup, cleaning, disk,
                 loaderVars, site, delay, variant, capacity, probe, calls,
                 poolVars, reqVars, runVars>>

NextExtract == ExtractIngredients

SpecExtract == InitExtract /\ [][NextExtract]_vars

----------------------------------------------------------------------------
(* Observations the properties below are stated on. *)

\* The threads that are inside safe_request with a session in hand.
Holders(s) == {t \in Threads : session[t] = s}

\* Of the requests the call put on the wire, those a transient failure
\* answered: the ones the adapter sent again, and the attempts that ended on
\* a transient failure.
TransientFailures(t) ==
  (fetches[t] - Len(answers[t]))
    + Cardinality({i \in 1..Len(answers[t]) : answers[t][i] = "503"})

\* safe_request is over for thread t.
Ended(t) == pc[t] \in {"leave", "returned"}

\* The scheduling step of a phase of the run is over.
PhaseLeft == run \in {"between", "save", "done", "crashed"}

NoTwoSameID(recs) ==
  \A i, j \in DOMAIN recs : i # j => recs[i].ID # recs[j].ID

\* How often record r occurs in a collection.
Count(recs, r) == Cardinality({i \in DOMAIN recs : recs[i] = r})

\* Two collections hold the same records, each as often.
SameBag(a, b) == \A r \in Range(a) \cup Range(b) : Count(a, r) = Count(b, r)

\* The records extract_recipe_list gives for one page of a fixed site.
PageYield(v, entry) ==
  IF IsSuccess(v, entry.ans) /\ ~entry.doc.rejected
    THEN ExtractList(v, entry.doc)
    ELSE <<>>

RECURSIVE SiteFood(_, _)
\* The records of the pages 1..n of a fixed site, in the order of the pages.
SiteFood(v, n) ==
  IF n = 0 THEN <<>> ELSE SiteFood(v, n - 1) \o PageYield(v, site.list[n])

\* Whether the detail page of a record of a fixed site gives a detail record.
HasDetail(rec) ==
  /\ IsSuccess(variant, site.detail[rec.ID].ans)
  /\ site.detail[rec.ID].doc = "ok"

\* The detail records of a fixed site for the records food.
SiteRecipe(food) ==
  LET found == SelectSeq(food, HasDetail) IN
  [i \in 1..Len(found) |-> [ID |-> found[i].ID]]

\* The set of IDs of the rows of a frame.
IDsOf(df) == {df.rows[i].ID : i \in DOMAIN df.rows}

----------------------------------------------------------------------------
(* Properties. *)

\* C1: the session safe_request took is back in the pool, once, when
\* safe_request is over: a session that is out of the pool is in the hands of
\* a thread that is inside safe_request, and no session is in the pool twice.
C1_SessionReturnedOnce ==
  /\ \A s \in CheckedOut : Holders(s) # {}
  /\ Cardinality(Range(session_pool)) = Len(session_pool)

\* C2: the sessions checked out at one time are at most the capacity of the
\* pool, MAX_WORKERS (optimized) or MAX_SESSIONS (robust).
C2_CheckedOutWithinCapacity ==
  variant \in {"optimized", "robust"} => Cardinality(CheckedOut) <= Capacity

\* C3: a session is held by at most one thread at a time: from the
\* get_session that hands it out to the return_session that gives it back it
\* is not in the pool and no other thread holds it.
C3_OneHolder ==
  \A t \in Threads :
    session[t] # 0 =>
      /\ Holders(session[t]) = {t}
      /\ session[t] \notin Range(session_pool)

\* Two workers of the optimized crawler hold a session each.
C3_Witness ==
  /\ variant = "optimized"
  /\ \E t, u \in Workers : t # u /\ session[t] # 0 /\ session[u] # 0

\* C4: the requests one safe_request call puts on the wire are at most
\* MAX_RETRIES.
C4_FetchesWithinMaxRetries ==
  \A t \in Threads : fetches[t] <= MAX_RETRIES

\* C5: a status such as 404 ends safe_request after one attempt: no further
\* attempt and no backoff sleep follows it.
C5_FatalStatusNotRetried ==
  \A t \in Threads :
    (answers[t] # <<>> /\ answers[t][1] = "404") =>
      /\ Len(answers[t]) = 1
      /\ sleeps[t] = 0
      /\ Ended(t)

\* C6: k transient failures on the wire (k < MAX_RETRIES) and then a 200:
\* safe_request returns the response after k + 1 attempts and k backoff sleeps.
C6_RetriesThenSuccess ==
  \A t \in Threads :
    ( /\ Ended(t)
      /\ answers[t] # <<>>
      /\ Last(answers[t]) = "200"
      /\ TransientFailures(t) = fetches[t] - 1
      /\ fetches[t] <= MAX_RETRIES ) =>
      /\ outcome[t] = "response"
      /\ Len(answers[t]) = fetches[t]
      /\ sleeps[t] = fetches[t] - 1

\* C7: while every request of the call is answered by a transient failure,
\* safe_request sleeps a backoff after each attempt but the last, makes
\* MAX_RETRIES attempts and no more, and ends returning None.
C7_AllRetryable ==
  \A t \in Threads :
    (answers[t] # <<>> /\ TransientFailures(t) = fetches[t]) =>
      /\ Len(answers[t]) <= MAX_RETRIES
      /\ pc[t] = "send" =>
           /\ Len(answers[t]) < MAX_RETRIES
           /\ sleeps[t] = Len(answers[t])
      /\ Ended(t) =>
           /\ Len(answers[t]) = MAX_RETRIES
           /\ sleeps[t] = MAX_RETRIES - 1
           /\ outcome[t] = "None"

\* A call that met transient failures only has returned None.
C7_Witness ==
  \E t \in Threads :
    /\ pc[t] = "returned"
    /\ outcome[t] = "None"
    /\ Len(answers[t]) = MAX_RETRIES
    /\ TransientFailures(t) = fetches[t]
    /\ sleeps[t] = MAX_RETRIES - 1

\* C8: when run_optimized leaves a phase, every job of the phase was
\* processed once and ended as a success or as a failure.
C8_EveryJobOnce ==
  (variant = "optimized" /\ PhaseLeft) =>
    \A j \in DOMAIN processed : processed[j] = 1

\* C9: when run_optimized leaves a phase, no batch of the phase is pending
\* or running, and the result of every batch that completed has joined
\* food_data / recipe_data.
C9_PhaseLeftAfterBatches ==
  (variant = "optimized" /\ PhaseLeft) =>
    \A b \in DOMAIN futures :
      /\ futures[b].state \in {"done", "failed"}
      /\ futures[b].state = "done" => futures[b].taken

\* C10: food_data holds no two records with one ID, and neither does
\* recipe_data.
C10_NoDuplicateIDs ==
  /\ NoTwoSameID(food_data)
  /\ NoTwoSameID(recipe_data)

\* C11: the IDs of the merged frame are the IDs that both frames hold, and
\* when neither frame holds an ID twice the merged frame has one row for
\* each of them.
C11_MergeIsIntersection ==
  merged_df.loaded =>
    /\ IDsOf(merged_df) = IDsOf(food_df) \cap IDsOf(recipe_df)
    /\ (NoTwoSameID(food_df.rows) /\ NoTwoSameID(recipe_df.rows)) =>
         /\ NoTwoSameID(merged_df.rows)
         /\ Len(merged_df.rows)
              = Cardinality(IDsOf(food_df) \cap IDsOf(recipe_df))

\* Summaries 1, 2, 3 and details 1, 3 were merged into two rows.
C11_Witness ==
  /\ merged_df.loaded
  /\ Len(food_df.rows) = 3
  /\ IDsOf(food_df) = {1, 2, 3}
  /\ Len(recipe_df.rows) = 2
  /\ IDsOf(recipe_df) = {1, 3}
  /\ Len(merged_df.rows) = 2

\* C12: once the first page has been processed, the failure of another job
\* stays local: the run is not aborted before the save step, and the listing
\* phase is not left before every page has been processed.
C12_FailureStaysLocal ==
  (processed # <<>> /\ processed[1] = 1) =>
    /\ run = "crashed" => saved.written
    /\ run = "between" => \A j \in DOMAIN processed : processed[j] = 1

\* Thread t is back from safe_request for page 1 with a terminal failure.
FirstPageFailed(t) ==
  /\ run = "list"
  /\ pc[t] = "returned"
  /\ outcome[t] = "None"
  /\ JobPos(t) = 1

\* C13: when safe_request has failed terminally for page 1, the thread that
\* asked for it starts no further request.
C13_FirstPageFatal ==
  [][\A t \in Threads :
       FirstPageFailed(t) => pc'[t] \notin {"get_session", "send"}]_vars

\* C14: against a site that answers each URL the same way every time, the
\* records run_optimized ends with are, as multisets, the records of the
\* site's pages and the details of these records, whatever the order in
\* which the batches completed and the workers were interleaved.
C14_ResultIndependentOfOrder ==
  (variant = "optimized" /\ site.fixed /\ run \in {"save", "done"}) =>
    /\ SameBag(food_data, SiteFood(variant, MAX_PAGES))
    /\ SameBag(recipe_data, SiteRecipe(SiteFood(variant, MAX_PAGES)))

\* A run has ended with the records of two batches in another order than
\* the pages have them, and with details.
C14_Witness ==
  /\ variant = "optimized"
  /\ site.fixed
  /\ run = "done"
  /\ Len(food_data) > 1
  /\ food_data # SiteFood(variant, MAX_PAGES)
  /\ recipe_data # <<>>

\* C15: a thread that calls get_session gets a session in the end: the pool
\* never keeps a caller waiting for ever.
C15_GetSessionReturns ==
  \A t \in Threads : (pc[t] = "get_session") ~> (pc[t] = "send")

\* A worker of the optimized crawler calls get_session while another worker
\* holds a session.
C15_Witness ==
  /\ variant = "optimized"
  /\ \E t, u \in Workers :
       t # u /\ pc[t] = "get_session" /\ session[u] # 0

\* C16: every attempt of a call, the first one and each retry, comes after a
\* rate-limit wait of its own.
C16_WaitBeforeEachFetch ==
  \A t \in Threads : waits[t] = Len(answers[t])

NotFoundValues == Sentinels \cup ExtractorSentinels

\* C18: validate_data returns False exactly when a required field is absent
\* from the record, empty, or a "not found" value, the ones the extractors
\* produce included.
C18_ValidateRejectsExactly ==
  validation.result # "none" =>
    (validation.result = "False" <=>
       \E field \in validation.required_fields :
         \/ field \notin DOMAIN validation.data_dict
         \/ validation.data_dict[field] = ""
         \/ validation.data_dict[field] \in NotFoundValues)

\* C19: every Summary record held in the aggregate has passed validation
\* with required fields ID and Title: both are present, non-empty and not a
\* sentinel value.
C19_AggregateValidated ==
  \A i \in 1..Len(food_data) : IsValidSummary(food_data[i])

RECURSIVE Flatten(_)
\* The batches joined in order.
Flatten(batches) ==
  IF Len(batches) = 0 THEN <<>> ELSE Flatten(Front(batches)) \o Last(batches)

\* C20: the batches partition the job list: every batch has between 1 and B
\* jobs, every batch but the last has exactly B, and the batches joined in
\* order are the job list, so that each job is in exactly one batch.
C20_BatchesPartition ==
  batching.built =>
    LET bs == batching.batches
        B == batching.size
    IN /\ \A k \in 1..Len(bs) : Len(bs[k]) >= 1 /\ Len(bs[k]) <= B
       /\ \A k \in 1..(Len(bs) - 1) : Len(bs[k]) = B
       /\ Flatten(bs) = batching.seq

\* Batches built with a last one shorter than the batch size.
C20_Witness ==
  /\ batching.built
  /\ Len(batching.batches) >= 2
  /\ Len(Last(batching.batches)) < batching.size

\* Whether the worker pool of run_optimized is running.
PoolRunning ==
  variant = "optimized" /\ run \in {"list", "list_abort", "detail", "detail_abort"}

\* C21: while the worker pool is running, food_data and recipe_data change
\* only in a step of the main thread taken while it holds data_lock, and
\* never are two threads inside a data_lock critical section.
C21_MutationsUnderDataLock ==
  /\ [](Cardinality(data_lock) <= 1)
  /\ [][PoolRunning /\ (food_data' # food_data \/ recipe_data' # recipe_data)
          => data_lock = {MainThread} /\ data_lock' = {}]_vars

\* The main thread has extended food_data with a batch under the lock
\* while a worker is still inside a request of another batch.
C21_Witness ==
  /\ PoolRunning
  /\ food_data # <<>>
  /\ data_lock = {}
  /\ \E w \in Workers : pc[w] # "idle"

C23_ZeroCapacityRejected ==
  capacity = 0 /\ variant \in {"optimized", "robust"} =>
    \A t \in Threads : pc[t] \in {"idle", "get_session"}

\* The answers with a status 200 through 299.
Status2xx == {"200", "204"}

\* C24: a response with a 2xx status ends safe_request on the attempt that
\* received it: it is the last answer of the call, the call returns the
\* response, and its sleeps are those of the attempts before it.
C24_Any2xxIsSuccess ==
  \A t \in Threads : \A i \in 1..Len(answers[t]) :
    answers[t][i] \in Status2xx =>
      /\ i = Len(answers[t])
      /\ Ended(t)
      /\ outcome[t] = "response"
      /\ sleeps[t] = i - 1

\* Whether text contains q as a substring, letter case set aside.
ContainsFold(text, q) ==
  \E i \in 1..(Len(text) - Len(q) + 1) :
    \A k \in 1..Len(q) : Fold(q[k]) = Fold(text[i + k - 1])

\* The rows of the call that pass its filters other than the search word.
OtherFiltersPass(r) ==
  /\ search.author # <<>> => StrContains(r.Author, search.author)
  /\ search.difficulty # <<>> => r.Difficulty = search.difficulty
  /\ search.max_time # 0 => WithinTime(r.Preparation_Time, search.max_time)

\* The rows whose Title or Ingredient contains the search word.
HasWord(r) ==
  ContainsFold(r.Title, search.query) \/ ContainsFold(r.Ingredient, search.query)

WordAndOthers(r) == HasWord(r) /\ OtherFiltersPass(r)

\* C25: with a non-empty q, search_recipes returns exactly the merged
\* records whose Title or Ingredient contains q as a substring, letter case
\* set aside, that pass every other filter given; with an empty q the text
\* filter excludes no record.
C25_QueryIsSubstringSearch ==
  search.done =>
    IF search.query # <<>>
      THEN search.recipes = SelectSeq(search.merged_df, WordAndOthers)
      ELSE search.recipes = SelectSeq(search.merged_df, OtherFiltersPass)

\* C26: with a non-empty author (difficulty), search_recipes returns only
\* records whose Author (Difficulty) is equal to the value given: no record
\* whose Author merely contains it or differs from it in letter case.
C26_AuthorDifficultyEquality ==
  search.done =>
    \A i \in 1..Len(search.recipes) :
      /\ search.author # <<>> => search.recipes[i].Author = search.author
      /\ search.difficulty # <<>> =>
           search.recipes[i].Difficulty = search.difficulty

\* The runs of digits of text that are followed at once by the minute
\* token, as <<first, last>> positions: a run starts where no digit stands
\* before it and ends where no digit follows it.
MinuteRuns(text) ==
  {span \in (1..Len(text)) \X (1..Len(text)) :
     /\ span[1] <= span[2]
     /\ \A k \in span[1]..span[2] : text[k] \in Digits
     /\ span[1] > 1 => text[span[1] - 1] \notin Digits
     /\ span[2] < Len(text)
     /\ text[span[2] + 1] = Minute}

\* Whether the first such span, read as an integer, is at most m.
FirstMinutesWithin(r) ==
  \E span \in MinuteRuns(r.Preparation_Time) :
    /\ \A other \in MinuteRuns(r.Preparation_Time) : span[1] <= other[1]
    /\ ToInt(SubSeq(r.Preparation_Time, span[1], span[2])) <= search.max_time

\* C27: with max_time = m >= 1, search_recipes returns a record exactly when
\* its Preparation_Time has a run of digits followed at once by the minute
\* token and the first such number, as an integer, is at most m; a record
\* with no such number is left out.
C27_MaxTimeFilter ==
  (search.done /\ search.max_time >= 1) =>
    search.recipes = SelectSeq(search.merged_df, FirstMinutesWithin)

\* "30<minute> ..." is returned for max_time = 30.
C27_Witness ==
  /\ search.done
  /\ search.max_time = 30
  /\ search.recipes # <<>>
  /\ search.recipes[1].Preparation_Time = <<"3", "0", Minute, "x">>

\* The filtered result the call pages through: the rows that pass the
\* filters of GET /search, every row of the merged frame for GET /recipes.
FilteredResult ==
  IF search.endpoint = "search"
    THEN SelectSeq(search.merged_df, OtherFiltersPass)
    ELSE search.merged_df

\* The number of pages of per_page rows that hold n rows.
PagesOf(n, per_page) == (n + per_page - 1) \div per_page

\* C28: the records returned are those at the 1-based positions
\* (page-1)*per_page + 1 through min(page*per_page, total) of the filtered
\* result, in its order: at most per_page records, none past the end;
\* total_count is the size of the filtered result whatever the page; the
\* pages 1, 2, ... joined in order give every record once.
C28_Pagination ==
  search.done =>
    LET F == FilteredResult
        first == (search.page - 1) * search.per_page + 1
        last == Min(search.page * search.per_page, Len(F))
    IN /\ Len(search.recipes) = (IF last >= first THEN last - first + 1 ELSE 0)
       /\ \A i \in 1..Len(search.recipes) : search.recipes[i] = F[first + i - 1]
       /\ Len(search.recipes) <= search.per_page
       /\ search.endpoint = "search" => search.total_count = Len(F)
       /\ Flatten([p \in 1..PagesOf(Len(F), search.per_page) |->
                     Paginate(F, p, search.per_page)]) = F

\* A second page that is the last and is not full.
C28_Witness ==
  /\ search.done
  /\ search.page = 2
  /\ search.recipes # <<>>
  /\ Len(search.recipes) < search.per_page

\* Whether a CSV file has a row with the ID.
InFile(file, id) == \E i \in 1..Len(file) : file[i].ID = id

\* The files hold the IDs the crawler writes for items: numbers.
CrawlerIDs(file) == \A i \in 1..Len(file) : file[i].ID \in NumericCells

\* C29: on files with the numeric IDs the crawler writes, get-by-ID returns
\* the merged record whose ID is the requested recipe_id whenever the merged
\* dataset has one (the ID is in both files), and answers 404 exactly when
\* it has none.
C29_GetByIdFindsRecord ==
  ( /\ lookup.status # "none"
    /\ CrawlerIDs(lookup.food_file)
    /\ CrawlerIDs(lookup.recipe_file) ) =>
    IF InFile(lookup.food_file, lookup.recipe_id)
         /\ InFile(lookup.recipe_file, lookup.recipe_id)
      THEN /\ lookup.status = "200"
           /\ lookup.recipe[1].ID.text = lookup.recipe_id
      ELSE lookup.status = "404"

\* The rows of the frame with a minute number.
WithMinutes(df) ==
  {i \in 1..Len(df) : MinuteRuns(df[i].Preparation_Time) # {}}

\* The minute number of a row that has one: its first digit run followed
\* at once by the minute token.
MinutesOf(r) ==
  LET spans == MinuteRuns(r.Preparation_Time)
      first == CHOOSE a \in spans : \A b \in spans : a[1] <= b[1]
  IN ToInt(SubSeq(r.Preparation_Time, first[1], first[2]))

\* C30: every record with a minute number t is counted in exactly one of
\* the buckets t <= 15, 16 <= t <= 30, 31 <= t <= 60, t > 60, and a record
\* without one in none: the four counts sum to the number of records with a
\* minute number.
C30_TimeBucketsPartition ==
  search.done =>
    LET df == search.merged_df
        In(lo, hi) == Cardinality({i \in WithMinutes(df) :
                         lo <= MinutesOf(df[i]) /\ MinutesOf(df[i]) <= hi})
        Above(lo) == Cardinality({i \in WithMinutes(df) : MinutesOf(df[i]) > lo})
    IN /\ search.time_dist[1] = In(0, 15)
       /\ search.time_dist[2] = In(16, 30)
       /\ search.time_dist[3] = In(31, 60)
       /\ search.time_dist[4] = Above(60)
       /\ search.time_dist[1] + search.time_dist[2] + search.time_dist[3]
            + search.time_dist[4] = Cardinality(WithMinutes(df))

\* Three records: one of 16 minutes, one of 61 and one without a number.
C30_Witness ==
  /\ search.done
  /\ Len(search.merged_df) = 3
  /\ search.time_dist = <<0, 1, 0, 1>>

\* The crawler's own state: everything but the call of validate_data.
CrawlerState == <<session_pool, created, discarded, food_data, recipe_data>>

TitleRead(i) == GroupTitle(extraction.source, extraction.doc.groups[i].title_tag)

IngredientGroups ==
  {i \in 1..Len(extraction.doc.groups) :
     Contains(KwIngredient, TitleRead(i)) \/ Contains(KwRecipe, TitleRead(i))}

CondimentGroups ==
  {i \in 1..Len(extraction.doc.groups) :
     Contains(KwCondiment, TitleRead(i))} \ IngredientGroups

\* The text a group sets: its title, a colon, its names joined.
GroupText(i) ==
  Titled(TitleRead(i),
         JoinedIngredients(extraction.source, extraction.doc.groups[i].anchors))

LastGroup(S) == CHOOSE i \in S : \A j \in S : j <= i

\* The structured strategy has run to its end on a page with groups.
Structured ==
  extraction.done /\ ~extraction.raised /\ extraction.doc.groups # <<>>

\* C32: on a page with groups, Ingredient is the text of the last group whose
\* title holds the ingredient or the recipe keyword, Condiment the text of
\* the last group whose title holds the condiment keyword and neither of
\* those, and a class with no group keeps its "none" literal; a group with
\* no keyword changes neither.
C32_GroupsClassifiedByTitle ==
  Structured =>
    /\ extraction.ingredient_text =
         IF IngredientGroups = {} THEN NoIngredientText
                                  ELSE GroupText(LastGroup(IngredientGroups))
    /\ extraction.condiment_text =
         IF CondimentGroups = {} THEN NoCondimentText
                                 ELSE GroupText(LastGroup(CondimentGroups))

\* Two ingredient groups with different texts: the second one's stands, and
\* Condiment keeps its literal.
C32_Witness ==
  /\ Structured
  /\ IngredientGroups = {1, 2}
  /\ GroupText(1) # GroupText(2)
  /\ extraction.ingredient_text = GroupText(2)
  /\ extraction.condiment_text = NoCondimentText

\* The fallback has run: the page has no group.
FellBack == extraction.done /\ extraction.doc.groups = <<>>

\* C33: on a page with no group, Ingredient is "title: body" exactly when
\* both the dt and the dd of div.cont_ingre exist and the "none" literal when
\* either is missing, and Condiment is its "none" literal in every case.
C33_FallbackNeedsBoth ==
  FellBack =>
    /\ extraction.condiment_text = NoCondimentText
    /\ extraction.ingredient_text =
         IF extraction.doc.dt.present /\ extraction.doc.dd.present
           THEN Titled(Strip(extraction.doc.dt.text), Strip(extraction.doc.dd.text))
           ELSE NoIngredientText

\* The fallback found both elements and rendered them.
C33_Witness ==
  /\ FellBack
  /\ extraction.doc.dt.present
  /\ extraction.doc.dd.present
  /\ extraction.ingredient_text = <<"t", ":", " ", "d">>

\* C34: the result of clean_text has no whitespace at either end, no line
\* break and no two whitespace characters in a row; it is the empty string
\* for None and for the empty string; and cleaning the result gives the
\* result again.
C34_CleanTextNormalises ==
  LET out == cleaning.result IN
  /\ cleaning.calls >= 1 =>
       /\ out # <<>> => ~IsSpace(out[1]) /\ ~IsSpace(out[Len(out)])
       /\ \A i \in 1..Len(out) : out[i] \notin {"LF", "CR"}
       /\ \A i \in 1..(Len(out) - 1) : ~(IsSpace(out[i]) /\ IsSpace(out[i + 1]))
       /\ (cleaning.text.none \/ cleaning.text.chars = <<>>) => out = <<>>
  /\ cleaning.calls = 2 => cleaning.again = out

\* A text with a line break next to a blank inside and whitespace around it
\* has been cleaned twice.
C34_Witness ==
  /\ cleaning.calls = 2
  /\ cleaning.text = Str(<<"TAB", "a", "LF", " ">>)
  /\ cleaning.result = <<"a">>

\* The detail phase has ended and the save step is next.
DetailEnded == run = "save"

\* The records of the detail jobs that succeeded, in the order of food_data.
Succeeded(j) == succeeded[j] = 1

DetailsOfSucceeded ==
  LET jobsDone == SelectSeq([j \in 1..Len(food_data) |-> j], Succeeded)
  IN [k \in 1..Len(jobsDone) |-> [ID |-> food_data[jobsDone[k]].ID]]

RecordIDs(recs) == {recs[i].ID : i \in 1..Len(recs)}

\* C35: when the detail phase has ended, recipe_data holds one record for
\* each entry of food_data whose detail job succeeded and none for the
\* others; every ID of recipe_data is an ID of food_data, recipe_data is no
\* longer than food_data, and the IDs the two share are the IDs of
\* recipe_data.
C35_DetailsFollowSummaries ==
  DetailEnded =>
    /\ Len(succeeded) = Len(food_data)
    /\ \A j \in 1..Len(succeeded) : succeeded[j] \in {0, 1}
    /\ SameBag(recipe_data, DetailsOfSucceeded)
    /\ variant # "optimized" => recipe_data = DetailsOfSucceeded
    /\ RecordIDs(recipe_data) \subseteq RecordIDs(food_data)
    /\ Len(recipe_data) <= Len(food_data)
    /\ RecordIDs(food_data) \cap RecordIDs(recipe_data) = RecordIDs(recipe_data)

\* Two entries were listed; the detail job of the first succeeded and that
\* of the second failed.
C35_Witness ==
  /\ DetailEnded
  /\ Len(food_data) = 2
  /\ succeeded = <<1, 0>>
  /\ recipe_data = <<[ID |-> food_data[1].ID]>>

\* The run is in its detail phase.
InDetail == run \in {"detail", "detail_abort"}

\* The listing phase is complete: no thread is inside a request or a batch,
\* and in the optimized crawler every listing batch has ended, been taken
\* from as_completed and joined food_data.
ListingComplete ==
  /\ \A t \in Threads : pc[t] = "idle"
  /\ data_lock = {}
  /\ variant = "optimized" =>
       /\ futures # <<>>
       /\ \A b \in DOMAIN futures : futures[b].state = "done" /\ futures[b].taken
       /\ SameBag(food_data, Flatten([b \in DOMAIN futures |-> futures[b].result]))

\* The jobs of the detail phase, in the order they were handed out.
DetailJobs ==
  IF variant = "optimized"
    THEN Flatten([b \in DOMAIN futures |-> futures[b].jobs])
    ELSE jobs[MainThread]

\* C36: the detail phase is entered only from a complete listing phase; its
\* jobs are the IDs of food_data, in food_data's order; and food_data does
\* not change while it runs.
C36_PhasesInOrder ==
  /\ [](run = "between" => ListingComplete)
  /\ [](InDetail => DetailJobs = RecipeIds(food_data))
  /\ [][(InDetail' /\ ~InDetail) => run = "between"]_vars
  /\ [][InDetail => food_data' = food_data]_vars

\* A worker of the optimized crawler is inside a detail request of a batch
\* of two entries.
C36_Witness ==
  /\ variant = "optimized"
  /\ run = "detail"
  /\ \E w \in Workers : pc[w] = "send"
  /\ Len(food_data) = 2
  /\ \A b \in DOMAIN futures : Len(futures[b].jobs) = 2

\* The robust crawler is back from extract_recipe_list's request for a page
\* before the last, and the loop of run decides on the next page.
RobustPageBack ==
  /\ variant = "robust"
  /\ run = "list"
  /\ pc[MainThread] = "returned"
  /\ idx[MainThread] < MAX_PAGES

\* C37: in the robust crawler's listing phase, page p + 1 is requested
\* exactly when p = 1 or page p yielded a record; otherwise the listing phase
\* ends there and the run goes on to the detail phase with the records
\* collected so far.
C37_RobustListingStops ==
  [][RobustPageBack =>
       LET p == idx[MainThread]
           yielded == Len(food_data') > Len(food_data)
       IN IF p = 1 \/ yielded
            THEN /\ run' = "list"
                 /\ idx'[MainThread] = p + 1
                 /\ pc'[MainThread] # "idle"
            ELSE /\ run' = "between"
                 /\ food_data' = food_data]_vars

\* Page 2 yielded nothing and the listing phase ended with the record of
\* page 1, page 3 never requested.
C37_Witness ==
  /\ variant = "robust"
  /\ run = "between"
  /\ processed = <<1, 1, 0>>
  /\ Len(food_data) = 1

\* C38: run of the final crawler and run_optimized end normally once they
\* have written their output files, also when food_data is empty.
C38_EndsNormallyAfterSave ==
  (variant \in {"final", "optimized"} /\ saved.written) => run = "done"

\* A run that listed nothing has written its files.
C38_Witness ==
  /\ variant \in {"final", "optimized"}
  /\ saved.written
  /\ saved.food = <<>>

\* The inner join on ID of the latest food file and the latest recipe file
\* as they are now.
CurrentJoin ==
  Merge(disk.food[Max(Glob(disk.food))].rows,
        disk.recipe[Max(Glob(disk.recipe))].rows)

\* C39: when load_latest_data has returned without error, merged_df is the
\* inner join on ID of the current contents of the latest food file and the
\* latest recipe file, whatever creations and modifications came before.
C39_LoadedDataIsCurrent ==
  disk.status = "ok" => merged_df = Frame(CurrentJoin)

\* A second load, after a file was written in a later tick, has picked up
\* the new contents.
C39_Witness ==
  /\ disk.status = "ok"
  /\ disk.last_loaded = 2
  /\ merged_df = Frame(CurrentJoin)
  /\ merged_df.rows # <<>>
  /\ \E n \in 1..MaxNames : disk.food[n].exists /\ disk.food[n].mtime = 1

====
